---------------------------- MODULE Spec2Model ----------------------------
(***************************************************************************)
(* pianobarfly recorder/tagger (fly.c, fly_misc.c, fly_mp4.c).             *)
(*                                                                         *)
(* The recorder of one song: BarFlyInit, BarFlyOpen, BarFlyWrite,          *)
(* BarFlyTag, BarFlyClose, over a model of the file system the code acts   *)
(* on through mkdir, open(O_EXCL), fwrite, fclose, unlink, rmdir, rename.  *)
(*                                                                         *)
(* C strings are sequences of one-character strings.  A directory or a     *)
(* file of the file system is named by its canonical absolute path, a      *)
(* sequence of names; <<>> is "/".                                         *)
(***************************************************************************)
EXTENDS Integers, Sequences, FiniteSets, TLC

VARIABLES
    settings,   \* BarSettings_t: audioFileDir, audioFileName, useSpaces, embedCover
    song,       \* PianoSong_t: artist, album, title, audioFormat
    fly,        \* BarFly_t of the caller
    stream,     \* the FILE behind fly.audio_file: its inode and unflushed bytes
    fs,         \* file system: dirs, files, cwd, next inode number
    tmp,        \* the tag writers' temporary file (outside the recording tree)
    call,       \* the last call: its name, return value and system-call trace
    pc,         \* the caller: "boot", "idle", "song", "closed", "closed2", "crashed"
    nwrites,    \* BarFlyWrite calls made for this song
    written,    \* the bytes of the BarFlyWrite calls that returned 0, in order
    freed,      \* the pointer members of fly whose memory free() has released
    procs,      \* the concurrent creators of _BarFlyFileOpen (SpecOpen2)
    cpath,      \* the path the concurrent creators open (SpecOpen2)
    mp4tag      \* the BarFlyMp4Tag_t BarFlyMp4TagOpen returned, NoTag when none (SpecTag)

vars == <<settings, song, fly, stream, fs, tmp, call, pc, nwrites,
          written, freed, procs, cpath, mp4tag>>

---------------------------------------------------------------------------
(* Bounds of the model. *)

\* BarFlyWrite calls per song.
MaxWrites == 2

\* EINTR interruptions of one open() in _BarFlyFileOpenStream.
MaxEintr == 1

---------------------------------------------------------------------------
(* C strings. *)

NULL == "NULL"

s_slash == "/"

\* The bytes 0x5C, 0x22 and 0x60, which a string literal cannot hold unescaped.
c_backslash == "BACKSLASH"
c_backtick == "BACKTICK"
c_dquote == "DQUOTE"

tok_artist == <<"%","a","r","t","i","s","t">>
tok_album  == <<"%","a","l","b","u","m">>
tok_title  == <<"%","t","i","t","l","e">>
tok_year   == <<"%","y","e","a","r">>
tok_track  == <<"%","t","r","a","c","k">>
tok_disc   == <<"%","d","i","s","c">>

ext_m4a == <<".","m","4","a">>
ext_mp3 == <<".","m","p","3">>

\* strncmp(tok, s, strlen(tok)) == 0
StartsWith(s, tok) ==
    /\ Len(s) >= Len(tok)
    /\ SubSeq(s, 1, Len(tok)) = tok

Drop(s, n) == SubSeq(s, n + 1, Len(s))

DigitChars == <<"0","1","2","3","4","5","6","7","8","9">>

\* printf("%hu", n)
RECURSIVE Fmt_hu(_)
Fmt_hu(n) ==
    IF n < 10 THEN <<DigitChars[n + 1]>>
    ELSE Fmt_hu(n \div 10) \o <<DigitChars[(n % 10) + 1]>>

\* printf("%02hu", n)
Fmt_02hu(n) == IF n < 10 THEN <<"0", DigitChars[n + 1]>> ELSE Fmt_hu(n)

\* _BarFlyNameTranslate with the test for '?' left out of the skipped bytes.
TranslateCharKeepsQuestion(c, useSpaces) ==
    IF c \in {"/", c_backslash, "|", ":", ";", "*", c_backtick} THEN <<"-">>
    ELSE IF c = "<" THEN <<"(">>
    ELSE IF c = ">" THEN <<")">>
    ELSE IF c = " " /\ ~useSpaces THEN <<"_">>
    ELSE IF c \in {c_dquote} THEN <<>>
    ELSE <<c>>

\* One byte of _BarFlyNameTranslate: the bytes written to dest for src[i].
TranslateChar(c, useSpaces) ==
    IF c \in {"/", c_backslash, "|", ":", ";", "*", c_backtick} THEN <<"-">>
    ELSE IF c = "<" THEN <<"(">>
    ELSE IF c = ">" THEN <<")">>
    ELSE IF c = " " /\ ~useSpaces THEN <<"_">>
    ELSE IF c \in {c_dquote, "?"} THEN <<>>
    ELSE <<c>>

\* _BarFlyNameTranslate: the loop runs to the NUL of src; n is not read.
\* (The bytes of src in order, taken by halves to keep the evaluation shallow.)
RECURSIVE _BarFlyNameTranslate(_, _)
_BarFlyNameTranslate(src, useSpaces) ==
    IF src = <<>> THEN <<>>
    ELSE IF Len(src) = 1 THEN TranslateChar(src[1], useSpaces)
    ELSE _BarFlyNameTranslate(SubSeq(src, 1, Len(src) \div 2), useSpaces)
            \o _BarFlyNameTranslate(SubSeq(src, Len(src) \div 2 + 1, Len(src)),
                                    useSpaces)

Formats == {"AACPLUS", "MP3", "MP3_HI", "OTHER"}

\* The switch on audio_format of _BarFlyFileGetPath.
Extension(audio_format) ==
    CASE audio_format = "AACPLUS" -> ext_m4a
      [] audio_format \in {"MP3", "MP3_HI"} -> ext_mp3
      [] OTHER -> NULL

\* The populate loop of _BarFlyFileGetPath over the rest of the pattern.
RECURSIVE RenderPattern(_, _, _, _, _, _, _)
RenderPattern(pat, pa, pal, pt, year, track, disc) ==
    IF pat = <<>> THEN <<>>
    ELSE IF Head(pat) # "%"
        THEN <<Head(pat)>> \o RenderPattern(Tail(pat), pa, pal, pt, year, track, disc)
    ELSE IF StartsWith(pat, tok_artist)
        THEN pa \o RenderPattern(Drop(pat, 7), pa, pal, pt, year, track, disc)
    ELSE IF StartsWith(pat, tok_album)
        THEN pal \o RenderPattern(Drop(pat, 6), pa, pal, pt, year, track, disc)
    ELSE IF StartsWith(pat, tok_title)
        THEN pt \o RenderPattern(Drop(pat, 6), pa, pal, pt, year, track, disc)
    ELSE IF StartsWith(pat, tok_year)
        THEN Fmt_hu(year) \o RenderPattern(Drop(pat, 5), pa, pal, pt, year, track, disc)
    ELSE IF StartsWith(pat, tok_track)
        THEN Fmt_02hu(track) \o RenderPattern(Drop(pat, 6), pa, pal, pt, year, track, disc)
    ELSE IF StartsWith(pat, tok_disc)
        THEN Fmt_hu(disc) \o RenderPattern(Drop(pat, 5), pa, pal, pt, year, track, disc)
    ELSE RenderPattern(Drop(pat, 1), pa, pal, pt, year, track, disc)

\* _BarFlyFileGetPath: NULL for an unsupported format or a failed malloc.
_BarFlyFileGetPath(artist, album, title, year, track, disc, audio_format, set, alloc_ok) ==
    IF Extension(audio_format) = NULL \/ ~alloc_ok THEN NULL
    ELSE RenderPattern(set.audioFileName,
                       _BarFlyNameTranslate(artist, set.useSpaces),
                       _BarFlyNameTranslate(album, set.useSpaces),
                       _BarFlyNameTranslate(title, set.useSpaces),
                       year, track, disc)
            \o Extension(audio_format)

---------------------------------------------------------------------------
(* The file system under the system calls the recorder makes. *)

NoNode == "NoNode"

\* The components of a path string, split at every '/'.
RECURSIVE Components(_)
Components(s) ==
    IF \A i \in 1..Len(s) : s[i] # s_slash THEN <<s>>
    ELSE LET i == CHOOSE k \in 1..Len(s) :
                    s[k] = s_slash /\ \A j \in 1..(k - 1) : s[j] # s_slash
         IN <<SubSeq(s, 1, i - 1)>> \o Components(Drop(s, i))

Parent(node) == IF node = <<>> THEN <<>> ELSE SubSeq(node, 1, Len(node) - 1)

\* Path walk from node over comps; every node walked through is a directory.
RECURSIVE Walk(_, _, _)
Walk(node, comps, dirs) ==
    IF comps = <<>> THEN node
    ELSE IF node \notin dirs THEN NoNode
    ELSE LET c == Head(comps)
         IN IF c = <<>> \/ c = <<".">> THEN Walk(node, Tail(comps), dirs)
            ELSE IF c = <<".", ".">> THEN Walk(Parent(node), Tail(comps), dirs)
            ELSE Walk(Append(node, c), Tail(comps), dirs)

\* A path string without its trailing slashes (mkdir and rmdir accept them).
RECURSIVE StripSlashes(_)
StripSlashes(s) ==
    IF Len(s) > 1 /\ s[Len(s)] = s_slash THEN StripSlashes(SubSeq(s, 1, Len(s) - 1))
    ELSE s

\* The node a path string names in file system f, or NoNode.
Resolve(f, s) ==
    IF s = <<>> THEN NoNode
    ELSE IF s[1] = s_slash THEN Walk(<<>>, Components(Drop(s, 1)), f.dirs)
    ELSE Walk(f.cwd, Components(s), f.dirs)

LastComponent(s) == LET cs == Components(StripSlashes(s)) IN cs[Len(cs)]

HasChildren(f, node) ==
    \E n \in f.dirs \cup DOMAIN f.files :
        Len(n) = Len(node) + 1 /\ SubSeq(n, 1, Len(node)) = node

Put(fn, k, v) == [x \in DOMAIN fn \cup {k} |-> IF x = k THEN v ELSE fn[x]]

Del(fn, k) == [x \in DOMAIN fn \ {k} |-> fn[x]]

\* mkdir(2): [fs, err], err "" on success.
SysMkdir(f, s) ==
    LET n == Resolve(f, StripSlashes(s))
    IN IF n = NoNode THEN [fs |-> f, err |-> "ENOENT"]
       ELSE IF n \in f.dirs \/ n \in DOMAIN f.files THEN [fs |-> f, err |-> "EEXIST"]
       ELSE [fs |-> [f EXCEPT !.dirs = @ \cup {n}], err |-> ""]

\* rmdir(2): [fs, err].
SysRmdir(f, s) ==
    LET n == Resolve(f, StripSlashes(s))
    IN IF s = <<>> THEN [fs |-> f, err |-> "ENOENT"]
       ELSE IF LastComponent(s) = <<".">> THEN [fs |-> f, err |-> "EINVAL"]
       ELSE IF LastComponent(s) = <<".", ".">> THEN [fs |-> f, err |-> "ENOTEMPTY"]
       ELSE IF n = NoNode THEN [fs |-> f, err |-> "ENOENT"]
       ELSE IF n \in DOMAIN f.files THEN [fs |-> f, err |-> "ENOTDIR"]
       ELSE IF n \notin f.dirs THEN [fs |-> f, err |-> "ENOENT"]
       ELSE IF n = <<>> THEN [fs |-> f, err |-> "EBUSY"]
       ELSE IF HasChildren(f, n) THEN [fs |-> f, err |-> "ENOTEMPTY"]
       ELSE [fs |-> [f EXCEPT !.dirs = @ \ {n}], err |-> ""]

\* open(2) with O_WRONLY | O_CREAT, the O_EXCL left out: an existing file is
\* opened as it is.
SysOpenNotExcl(f, s) ==
    LET n == Resolve(f, s)
    IN IF n = NoNode THEN [fs |-> f, err |-> "ENOENT", ino |-> 0]
       ELSE IF n \in f.dirs THEN [fs |-> f, err |-> "EISDIR", ino |-> 0]
       ELSE IF n \in DOMAIN f.files THEN [fs |-> f, err |-> "", ino |-> f.files[n].ino]
       ELSE [fs |-> [f EXCEPT !.files = Put(@, n, [ino |-> f.next, data |-> <<>>]),
                              !.next = @ + 1],
             err |-> "", ino |-> f.next]

\* open(2) with O_WRONLY | O_CREAT | O_EXCL: [fs, err, ino].
SysOpenExcl(f, s) ==
    LET n == Resolve(f, s)
    IN IF n = NoNode THEN [fs |-> f, err |-> "ENOENT", ino |-> 0]
       ELSE IF n \in f.dirs \/ n \in DOMAIN f.files
            THEN [fs |-> f, err |-> "EEXIST", ino |-> 0]
       ELSE [fs |-> [f EXCEPT !.files = Put(@, n, [ino |-> f.next, data |-> <<>>]),
                              !.next = @ + 1],
             err |-> "", ino |-> f.next]

\* unlink(2): [fs, err].
SysUnlink(f, s) ==
    LET n == Resolve(f, s)
    IN IF n = NoNode \/ n \notin DOMAIN f.files THEN [fs |-> f, err |-> "ENOENT"]
       ELSE [fs |-> [f EXCEPT !.files = Del(@, n)], err |-> ""]

\* write(2) on an open descriptor: the bytes reach the inode, linked or not.
SysWrite(f, ino, bytes) ==
    [f EXCEPT !.files = [n \in DOMAIN @ |->
        IF @[n].ino = ino THEN [@[n] EXCEPT !.data = @ \o bytes] ELSE @[n]]]

\* The bytes a fopen(path, "rb") reader sees, or NULL when the open fails.
SysRead(f, s) ==
    LET n == Resolve(f, s)
    IN IF n = NoNode \/ n \notin DOMAIN f.files THEN NULL ELSE f.files[n].data

\* rename(2) of the temporary file t onto path s: [fs, err].
SysRenameOnto(f, t, s) ==
    LET n == Resolve(f, s)
    IN IF n = NoNode \/ n \in f.dirs \/ Parent(n) \notin f.dirs
            THEN [fs |-> f, err |-> "ENOENT"]
       ELSE [fs |-> [f EXCEPT !.files = Put(@, n, [ino |-> t.ino, data |-> t.data])],
             err |-> ""]


---------------------------------------------------------------------------
(* fly.c: opening the audio file. *)

\* One system call of a handler's trace.
Ev(sys, path, err) == [sys |-> sys, path |-> path, err |-> err]

\* The parent-directory loop of _BarFlyFileOpen from byte i of path on:
\* [fs, ret, trace].
RECURSIVE MkdirParents(_, _, _, _)
MkdirParents(f, path, i, fault) ==
    IF i > Len(path) THEN [fs |-> f, ret |-> 0, trace |-> <<>>]
    ELSE IF path[i] # s_slash THEN MkdirParents(f, path, i + 1, fault)
    ELSE IF fault = "asprintf" THEN [fs |-> f, ret |-> -1, trace |-> <<>>]
    ELSE LET dir_path == SubSeq(path, 1, i - 1)
             r == IF fault = "mkdir" THEN [fs |-> f, err |-> "EACCES"]
                  ELSE SysMkdir(f, dir_path)
             ev == Ev("mkdir", dir_path, r.err)
         IN IF r.err \notin {"", "EEXIST"}
            THEN [fs |-> r.fs, ret |-> -1, trace |-> <<ev>>]
            ELSE LET rest == MkdirParents(r.fs, path, i + 1, fault)
                 IN [rest EXCEPT !.trace = <<ev>> \o @]

\* _BarFlyFileOpenStream: [fs, fp, err, trace]; fp is the inode of the stream,
\* 0 for NULL.  An EINTR only repeats the call.
_BarFlyFileOpenStream(f, path, fault) ==
    LET o == IF fault = "open" THEN [fs |-> f, err |-> "EACCES", ino |-> 0]
             ELSE SysOpenExcl(f, path)
    IN IF o.err # ""
       THEN [fs |-> f, fp |-> 0, err |-> o.err,
             trace |-> <<Ev("open", path, o.err)>>]
       ELSE IF fault = "fdopen"
       THEN [fs |-> o.fs, fp |-> 0, err |-> "ENOMEM",
             trace |-> <<Ev("open", path, ""), Ev("fdopen", path, "ENOMEM"),
                         Ev("close", path, "")>>]
       ELSE [fs |-> o.fs, fp |-> o.ino, err |-> "",
             trace |-> <<Ev("open", path, ""), Ev("fdopen", path, "")>>]

\* The exit status _BarFlyFileOpen gives the stream o it got.
FileOpenReturn(mtrace, o) ==
    [fs |-> o.fs,
     ret |-> IF o.fp # 0 THEN 0 ELSE IF o.err = "EEXIST" THEN -2 ELSE -1,
     fp |-> o.fp,
     trace |-> mtrace \o o.trace]

\* _BarFlyFileOpen after its parent-directory loop ended as m.
FileOpenAfterParents(m, path, fault) ==
    IF m.ret # 0 THEN [fs |-> m.fs, ret |-> -1, fp |-> 0, trace |-> m.trace]
    ELSE FileOpenReturn(m.trace, _BarFlyFileOpenStream(m.fs, path, fault))

\* _BarFlyFileOpen: [fs, ret, fp, trace]; ret 0, -2 (exists) or -1.
_BarFlyFileOpen(f, path, fault) ==
    FileOpenAfterParents(MkdirParents(f, path, 1, fault), path, fault)

BAR_FLY_NAME_LENGTH == 256

\* strncpy(dest, src, BAR_FLY_NAME_LENGTH); dest[BAR_FLY_NAME_LENGTH - 1] = 0
NameCopy(src) ==
    IF Len(src) > BAR_FLY_NAME_LENGTH - 1 THEN SubSeq(src, 1, BAR_FLY_NAME_LENGTH - 1)
    ELSE src

\* A BarFly_t of zero bytes: memset(&output_fly, 0, sizeof(BarFly_t)).
ZeroFly ==
    [audio_file |-> NULL, audio_file_path |-> NULL, audio_format |-> "OTHER",
     completed |-> FALSE, artist |-> <<>>, album |-> <<>>, title |-> <<>>,
     year |-> 0, track |-> 0, disc |-> 0, cover_art_url |-> NULL,
     status |-> "NOT_RECORDING"]

\* The BarFly_t the caller hands to BarFlyOpen: the player's structure, which
\* it clears before every song.
CallerFly == ZeroFly

\* The values the album pages give when fetched and parsed.
PageYear == 1998
PageTrack == 3
PageDisc == 1

\* The metadata part of BarFlyOpen with a _BarFlyParseTrackDisc that stores
\* the track before it scans the disc.
OpenMetadataTrackFirst(m) ==
    [year |-> IF m.detail /\ m.year THEN PageYear ELSE 0,
     cover_art_url |-> IF m.detail /\ m.cover THEN "url" ELSE NULL,
     track |-> IF m.explorer THEN PageTrack ELSE 0,
     disc |-> IF m.explorer /\ m.trackdisc THEN PageDisc ELSE 0,
     exit_status |-> IF m.detail /\ m.year /\ m.cover /\ m.explorer /\ m.trackdisc
                     THEN 0 ELSE -1]

\* The metadata part of BarFlyOpen for one outcome m of the two fetches and
\* the three parses: [year, cover_art_url, track, disc, exit_status].
OpenMetadata(m) ==
    [year |-> IF m.detail /\ m.year THEN PageYear ELSE 0,
     cover_art_url |-> IF m.detail /\ m.cover THEN "url" ELSE NULL,
     track |-> IF m.explorer /\ m.trackdisc THEN PageTrack ELSE 0,
     disc |-> IF m.explorer /\ m.trackdisc THEN PageDisc ELSE 0,
     exit_status |-> IF m.detail /\ m.year /\ m.cover /\ m.explorer /\ m.trackdisc
                     THEN 0 ELSE -1]

\* BarFlyOpen with the memcpy to *fly moved to its end label: the caller also
\* gets output_fly, marked completed, when the file could not be opened.
OpenResultFlyCopiedOnError(old, out, status) ==
    IF status = 0
        THEN [out EXCEPT !.status = "RECORDING", !.audio_file = "FILE"]
    ELSE IF status = -2
        THEN [out EXCEPT !.status = "NOT_RECORDING_EXIST", !.completed = TRUE]
    ELSE [out EXCEPT !.completed = TRUE]

\* What BarFlyOpen leaves in *fly: output_fly after the status of
\* _BarFlyFileOpen is mapped, or the caller's bytes when it took the error exit.
OpenResultFly(old, out, status) ==
    IF status = 0
        THEN [out EXCEPT !.status = "RECORDING", !.audio_file = "FILE"]
    ELSE IF status = -2
        THEN [out EXCEPT !.status = "NOT_RECORDING_EXIST", !.completed = TRUE]
    ELSE old

\* output_fly as BarFlyOpen fills it before it renders the path.
OpenOutputFly(sng, m) ==
    [ZeroFly EXCEPT !.artist = NameCopy(sng.artist),
                    !.album = NameCopy(sng.album),
                    !.title = NameCopy(sng.title),
                    !.audio_format = sng.audioFormat,
                    !.year = m.year,
                    !.cover_art_url = m.cover_art_url,
                    !.track = m.track,
                    !.disc = m.disc]

\* BarFlyOpen from the return o of _BarFlyFileOpen on.
OpenReturn(old, out, m, o) ==
    [fly |-> OpenResultFly(old, out, o.ret),
     fs |-> o.fs,
     stream |-> [open |-> o.ret = 0, ino |-> o.fp, buf |-> <<>>],
     ret |-> IF o.ret \in {0, -2} THEN m.exit_status ELSE -1,
     trace |-> o.trace]

\* BarFlyOpen from the return path of _BarFlyFileGetPath on.
OpenFile(old, out, m, f, path, fault) ==
    IF path = NULL
    THEN [fly |-> old, fs |-> f, stream |-> [open |-> FALSE, ino |-> 0, buf |-> <<>>],
          ret |-> -1, trace |-> <<>>]
    ELSE OpenReturn(old, [out EXCEPT !.audio_file_path = path], m,
                    _BarFlyFileOpen(f, path, fault))

\* BarFlyOpen after the fetches and parses gave m.
OpenWithMetadata(old, f, sng, set, m, fault) ==
    OpenFile(old, OpenOutputFly(sng, m), m, f,
             _BarFlyFileGetPath(sng.artist, sng.album, sng.title, m.year, m.track,
                                m.disc, sng.audioFormat, set, fault # "malloc"),
             fault)

\* BarFlyOpen: [fly, fs, stream, ret, trace].
DoBarFlyOpen(old, f, sng, set, meta, fault) ==
    OpenWithMetadata(old, f, sng, set, OpenMetadata(meta), fault)

---------------------------------------------------------------------------
(* fly.c: deleting the partial file. *)

LastSlash(s) == CHOOSE i \in 1..Len(s) :
                    s[i] = s_slash /\ \A j \in (i + 1)..Len(s) : s[j] # s_slash

\* The errno values after which the rmdir loop of _BarFlyFileDelete goes on.
RmdirTolerated == {"", "ENOTEMPTY", "EEXIST"}

\* The rmdir loop of _BarFlyFileDelete on what is left of dir_path:
\* [fs, ret, trace].
RECURSIVE RmdirParents(_, _, _)
RmdirParents(f, dir_path, fault) ==
    IF \A i \in 1..Len(dir_path) : dir_path[i] # s_slash
    THEN [fs |-> f, ret |-> 0, trace |-> <<>>]
    ELSE LET d == SubSeq(dir_path, 1, LastSlash(dir_path) - 1)
             r == IF fault = "rmdir" THEN [fs |-> f, err |-> "EACCES"]
                  ELSE SysRmdir(f, d)
             ev == Ev("rmdir", d, r.err)
         IN IF r.err \notin RmdirTolerated
            THEN [fs |-> r.fs, ret |-> -1, trace |-> <<ev>>]
            ELSE LET rest == RmdirParents(r.fs, d, fault)
                 IN [rest EXCEPT !.trace = <<ev>> \o @]

\* _BarFlyFileDelete after unlink(audio_file_path) returned u.
DeleteAfterUnlink(u, path, fault) ==
    IF u.err # ""
    THEN [fs |-> u.fs, ret |-> -1, trace |-> <<Ev("unlink", path, u.err)>>]
    ELSE IF fault = "strdup"
    THEN [fs |-> u.fs, ret |-> -1,
          trace |-> <<Ev("unlink", path, ""), Ev("strdup", path, "ENOMEM")>>]
    ELSE [RmdirParents(u.fs, path, fault)
            EXCEPT !.trace = <<Ev("unlink", path, u.err)>> \o @]

\* _BarFlyFileDelete on the string audio_file_path points to: [fs, ret, trace].
_BarFlyFileDelete(f, path, fault) ==
    IF path = NULL THEN [fs |-> f, ret |-> 0, trace |-> <<>>]
    ELSE DeleteAfterUnlink(SysUnlink(f, path), path, fault)

---------------------------------------------------------------------------
(* fly.c, fly_id3.c, fly_mp4.c: writing the tag. *)

NoTmp == [exists |-> FALSE, ino |-> 0, data |-> <<>>]

\* The frames _BarFlyTagID3Write adds, in the order it adds them.
ID3Frames(fl, cover_art) ==
    <<"TPE1", "TALB", "TIT2">>
        \o (IF fl.year # 0 THEN <<"TYER">> ELSE <<>>)
        \o (IF fl.track # 0 THEN <<"TRCK">> ELSE <<>>)
        \o (IF fl.disc # 0 THEN <<"TPOS">> ELSE <<>>)
        \o (IF cover_art # NULL THEN <<"APIC">> ELSE <<>>)

\* id3_tag_render: the tag header, then the frames.
ID3Render(frames) == <<"ID3">> \o frames

\* The error exit of BarFlyID3WriteFile: unlink(tmp_file_path), whatever
\* tmp_file_path holds; before tmpnam() it holds indeterminate bytes, which
\* name nothing, a temporary file an earlier writer left, or the audio file.
ID3ErrorExit(f, t, named, garbage, file_path, trace) ==
    IF named \/ garbage = "tmp"
    THEN [fs |-> f, tmp |-> NoTmp, ret |-> -1,
          trace |-> trace \o <<Ev("unlink", "tmp", IF t.exists THEN "" ELSE "ENOENT")>>]
    ELSE IF garbage = "file" /\ file_path # NULL
    THEN [fs |-> SysUnlink(f, file_path).fs, tmp |-> t, ret |-> -1,
          trace |-> trace \o <<Ev("unlink", file_path, SysUnlink(f, file_path).err)>>]
    ELSE [fs |-> f, tmp |-> t, ret |-> -1,
          trace |-> trace \o <<Ev("unlink", "indeterminate", "ENOENT")>>]

\* BarFlyID3WriteFile: [fs, tmp, ret, trace].
BarFlyID3WriteFile(f, t, file_path, tag, fault, garbage) ==
    LET audio == IF file_path = NULL THEN NULL ELSE SysRead(f, file_path)
        newtmp == [exists |-> TRUE, ino |-> f.next, data |-> <<>>]
        f1 == [f EXCEPT !.next = @ + 1]
        full == [newtmp EXCEPT !.data = tag \o audio]
        rd == Ev("fopen_rb", file_path, IF audio = NULL THEN "ENOENT" ELSE "")
    IN IF fault = "tag_malloc" THEN ID3ErrorExit(f, t, FALSE, garbage, file_path, <<>>)
       ELSE IF audio = NULL \/ fault = "fopen_audio"
            THEN ID3ErrorExit(f, t, FALSE, garbage, file_path, <<rd>>)
       ELSE IF fault = "fopen_tmp"
            THEN ID3ErrorExit(f, NoTmp, TRUE, garbage, file_path, <<rd>>)
       ELSE IF fault = "fwrite_tmp"
            THEN ID3ErrorExit(f1, newtmp, TRUE, garbage, file_path,
                              <<rd, Ev("fopen_tmp", "tmp", "")>>)
       ELSE IF fault = "fread"
            THEN ID3ErrorExit(f1, [newtmp EXCEPT !.data = tag], TRUE, garbage, file_path,
                              <<rd, Ev("fopen_tmp", "tmp", ""), Ev("fread", file_path, "EIO")>>)
       ELSE LET r == IF fault = "rename" THEN [fs |-> f1, err |-> "EXDEV"]
                     ELSE SysRenameOnto(f1, full, file_path)
                tr == <<rd, Ev("fopen_tmp", "tmp", ""), Ev("fread", file_path, ""),
                        Ev("rename", file_path, r.err)>>
            IN IF r.err # "" THEN ID3ErrorExit(f1, full, TRUE, garbage, file_path, tr)
               ELSE [fs |-> r.fs, tmp |-> NoTmp, ret |-> 0, trace |-> tr]

\* _BarFlyTagID3Write: [fs, tmp, ret, trace].
_BarFlyTagID3Write(f, t, fl, cover_art, fault, garbage) ==
    IF fault = "tag_new" THEN [fs |-> f, tmp |-> t, ret |-> -1, trace |-> <<>>]
    ELSE BarFlyID3WriteFile(f, t, fl.audio_file_path,
                            ID3Render(ID3Frames(fl, cover_art)), fault, garbage)

\* The metadata _BarFlyTagMp4Write adds, in the order it adds them.
Mp4Items(fl, cover_art) ==
    <<"ART", "alb", "nam">>
        \o (IF fl.year # 0 THEN <<"day">> ELSE <<>>)
        \o (IF fl.track # 0 THEN <<"trkn">> ELSE <<>>)
        \o (IF fl.disc # 0 THEN <<"disk">> ELSE <<>>)
        \o (IF cover_art # NULL THEN <<"covr">> ELSE <<>>)

\* The atoms of items that are in the tag after the adds: when the realloc of
\* _BarFlyMp4AtomAddChild fails at the attach of the last one,
\* _BarFlyMp4TagAddMetaAtom drops the status and the add returns 0 without it.
Mp4Attached(items, fault) ==
    IF fault = "add_child" THEN SubSeq(items, 1, Len(items) - 1) ELSE items

\* The file BarFlyMp4TagWrite renders from the source bytes and the added
\* atoms, kept symbolic here: the atoms added to moov, then the source bytes.
Mp4Render(items, audio) == <<"moov">> \o items \o <<"source">> \o audio

\* _BarFlyTagMp4Write (BarFlyMp4TagOpen, the adds, BarFlyMp4TagWrite):
\* [fs, tmp, ret, trace].  No exit of BarFlyMp4TagWrite unlinks the temporary
\* file.
_BarFlyTagMp4Write(f, t, fl, cover_art, fault, parse_ok) ==
    LET file_path == fl.audio_file_path
        audio == IF file_path = NULL THEN NULL ELSE SysRead(f, file_path)
        newtmp == [exists |-> TRUE, ino |-> f.next, data |-> <<>>]
        f1 == [f EXCEPT !.next = @ + 1]
        full == [newtmp EXCEPT
                    !.data = Mp4Render(Mp4Attached(Mp4Items(fl, cover_art), fault), audio)]
        rd == Ev("fopen_rb", file_path, IF audio = NULL THEN "ENOENT" ELSE "")
    IN IF fault \in {"tag_new", "tag_malloc"}
            THEN [fs |-> f, tmp |-> t, ret |-> -1, trace |-> <<>>]
       ELSE IF audio = NULL \/ fault = "fopen_audio" \/ audio = <<>> \/ ~parse_ok
            THEN [fs |-> f, tmp |-> t, ret |-> -1, trace |-> <<rd>>]
       ELSE IF fault = "fopen_tmp"
            THEN [fs |-> f, tmp |-> t, ret |-> -1, trace |-> <<rd>>]
       ELSE IF fault = "fwrite_tmp"
            THEN [fs |-> f1, tmp |-> newtmp, ret |-> -1,
                  trace |-> <<rd, Ev("fopen_tmp", "tmp", "")>>]
       ELSE IF fault = "fread"
            THEN [fs |-> f1, tmp |-> newtmp, ret |-> -1,
                  trace |-> <<rd, Ev("fopen_tmp", "tmp", ""), Ev("fread", file_path, "EIO")>>]
       ELSE LET r == IF fault = "rename" THEN [fs |-> f1, err |-> "EXDEV"]
                     ELSE SysRenameOnto(f1, full, file_path)
                tr == <<rd, Ev("fopen_tmp", "tmp", ""), Ev("fread", file_path, ""),
                        Ev("rename", file_path, r.err)>>
            IN IF r.err # "" THEN [fs |-> f1, tmp |-> full, ret |-> -1, trace |-> tr]
               ELSE [fs |-> r.fs, tmp |-> NoTmp, ret |-> 0, trace |-> tr]

\* The switch on audio_format of _BarFlyTagWrite.
TagWriteFormat(f, t, fl, cover_art, fault, parse_ok, garbage) ==
    CASE fl.audio_format = "AACPLUS" ->
            _BarFlyTagMp4Write(f, t, fl, cover_art, fault, parse_ok)
      [] fl.audio_format \in {"MP3", "MP3_HI"} ->
            _BarFlyTagID3Write(f, t, fl, cover_art, fault, garbage)
      [] OTHER -> [fs |-> f, tmp |-> t, ret |-> -1, trace |-> <<>>]

\* The exit of _BarFlyTagWrite: -1 when the writer w or the cover fetch failed.
TagWriteReturn(w, fetch_failed, fetch) ==
    [fs |-> w.fs, tmp |-> w.tmp,
     ret |-> IF w.ret # 0 \/ fetch_failed THEN -1 ELSE 0,
     trace |-> fetch \o w.trace]

\* _BarFlyTagWrite: [fs, tmp, ret, trace].
_BarFlyTagWrite(f, t, fl, set, cover_ok, fault, parse_ok, garbage) ==
    LET wanted == set.embedCover /\ fl.cover_art_url # NULL
    IN TagWriteReturn(
          TagWriteFormat(f, t, fl, IF wanted /\ cover_ok THEN "cover" ELSE NULL,
                         fault, parse_ok, garbage),
          wanted /\ ~cover_ok,
          IF wanted
          THEN <<Ev("fetch", fl.cover_art_url, IF cover_ok THEN "" ELSE "EIO")>>
          ELSE <<>>)

\* BarFlyTag marking the song completed only when the tag was written.
TagResultFlyCompletedOnSuccess(fl, status) ==
    [fl EXCEPT !.status = "TAGGING", !.completed = (status = 0)]

\* What BarFlyTag leaves in *fly after _BarFlyTagWrite returned status.
TagResultFly(fl, status) == [fl EXCEPT !.status = "TAGGING", !.completed = TRUE]

---------------------------------------------------------------------------
(* The inputs of the model. *)

AudioFileDirs == { <<"/","r">>, <<"b","/",".",".","/","r">> }

Templates == { tok_artist \o <<"/">> \o tok_album \o <<"/">> \o tok_title,
               <<"/">> \o tok_artist \o <<"/">> \o tok_title }

Artists == { <<"a">>, <<".",".">> }

Albums == { <<"b">>, <<"r">>, <<"?">> }

Titles == { <<"t">> }

SongFormats == {"AACPLUS", "MP3", "OTHER"}

\* The audio stream of the song, which the player passes on block by block.
AudioStream == << <<"d1">>, <<"d2">>, <<"d3">>, <<"d4">> >>

\* Outcomes of the two fetches and three parses of BarFlyOpen: all succeed,
\* the album-detail fetch fails, the album-explorer fetch fails, the year
\* parse fails.
MetaAllOk == [detail |-> TRUE, year |-> TRUE, cover |-> TRUE,
              explorer |-> TRUE, trackdisc |-> TRUE]

MetaOutcomes == { MetaAllOk,
                  [MetaAllOk EXCEPT !.detail = FALSE],
                  [MetaAllOk EXCEPT !.explorer = FALSE],
                  [MetaAllOk EXCEPT !.year = FALSE] }

OpenFaults == {"none", "malloc", "asprintf", "mkdir", "open", "fdopen"}

TagFaults == {"none", "cover_fetch", "parse", "tag_malloc", "add_child", "fopen_tmp",
              "fread", "rename"}

CloseFaults == {"none", "strdup", "rmdir"}

Builds == {"assert", "ndebug"}

\* What a use of released memory or of a closed stream can do.
UBOutcomes == {"crash", "intact", "empty"}

\* What the indeterminate bytes of an uninitialized tmp_file_path name:
\* nothing, a temporary file of an earlier writer, the audio file.
UninitializedPaths == {"nothing", "tmp", "file"}

NoCall == [op |-> "none", ret |-> 0, trace |-> <<>>]

NoStream == [open |-> FALSE, ino |-> 0, buf |-> <<>>]

\* What the calls of this song have done so far: the blocks BarFlyWrite took
\* with status 0, whether a BarFlyWrite failed, and how BarFlyTag ended.
NoneWritten == [data |-> <<>>, failed |-> FALSE, tagged |-> "no"]

NoProcs == [p \in {} |-> 0]

\* No bytes at all: a NULL buffer, a failed read, an atom that was not found.
NoBytes == <<-1>>

\* The tag when there is none (a NULL BarFlyMp4Tag_t*).
NoTag == [file_path |-> NULL, atoms |-> <<>>, mp4_file |-> NoBytes]

---------------------------------------------------------------------------
(* fly.c: BarFlyInit. *)

\* The strtok loop of BarFlyInit over the components left: [fs, ret].
RECURSIVE InitComponents(_, _)
InitComponents(f, comps) ==
    IF comps = <<>> THEN [fs |-> f, ret |-> 0]
    ELSE LET c == Head(comps)
         IN IF c = <<".">> \/ c = <<>> THEN InitComponents(f, Tail(comps))
            ELSE IF c = <<".", ".">>
                 THEN InitComponents([f EXCEPT !.cwd = Parent(@)], Tail(comps))
            ELSE LET m == SysMkdir(f, c)
                     n == Resolve(m.fs, c)
                 IN IF m.err \notin {"", "EEXIST"} \/ n \notin m.fs.dirs
                    THEN [fs |-> m.fs, ret |-> -1]
                    ELSE InitComponents([m.fs EXCEPT !.cwd = n], Tail(comps))

\* BarFlyInit on settings->audioFileDir: [fs, ret].
DoBarFlyInit(f, dir) ==
    InitComponents(IF dir[1] = s_slash THEN [f EXCEPT !.cwd = <<>>] ELSE f,
                   Components(dir))

BarFlyInit ==
    /\ pc = "boot"
    /\ LET r == DoBarFlyInit(fs, settings.audioFileDir)
       IN /\ fs' = r.fs
          /\ pc' = IF r.ret = 0 THEN "init" ELSE "crashed"
          /\ call' = [op |-> "BarFlyInit", ret |-> r.ret, trace |-> <<>>]
    /\ UNCHANGED <<mp4tag, settings, song, fly, stream, tmp, nwrites, written, freed,
                   procs, cpath>>

\* The recording root: the working directory BarFlyInit leaves.
Root == DoBarFlyInit([dirs |-> {<<>>}, files |-> <<>>, cwd |-> <<>>, next |-> 1],
                     settings.audioFileDir).fs.cwd

EarlierFile(o) ==
    /\ o.ret = 0
    /\ fs' = SysWrite(o.fs, o.fp, <<"old">>)

\* An earlier song left its file: this song's (title t) or another of the
\* same artist and album.
EarlierRecording ==
    /\ pc = "init"
    /\ Extension(song.audioFormat) # NULL
    /\ \E title \in Titles \cup { <<"k">> } :
        EarlierFile(_BarFlyFileOpen(fs,
            _BarFlyFileGetPath(song.artist, song.album, title, 0, 0, 0,
                               song.audioFormat, settings, TRUE), "none"))
    /\ pc' = "idle"
    /\ UNCHANGED <<mp4tag, settings, song, fly, stream, tmp, call, nwrites, written,
                   freed, procs, cpath>>

---------------------------------------------------------------------------
(* fly.c: the calls of one song. *)

OpenEffect(r) ==
    /\ fly' = r.fly
    /\ fs' = r.fs
    /\ stream' = r.stream
    /\ call' = [op |-> "BarFlyOpen", ret |-> r.ret, trace |-> r.trace]

BarFlyOpen ==
    /\ pc \in {"init", "idle"}
    /\ \E meta \in MetaOutcomes, fault \in OpenFaults :
        OpenEffect(DoBarFlyOpen(fly, fs, song, settings, meta, fault))
    /\ pc' = "song"
    /\ UNCHANGED <<mp4tag, settings, song, tmp, nwrites, written, freed, procs, cpath>>

Crash(op) ==
    /\ pc' = "crashed"
    /\ call' = [op |-> op, ret |-> -1, trace |-> <<>>]

\* fwrite of data on the open stream, of which stdio then has passed the
\* first k buffered bytes to write(2).
StreamWrite(st, f, data, k) ==
    LET all == st.buf \o data
    IN [stream |-> [st EXCEPT !.buf = Drop(all, k)],
        fs |-> SysWrite(f, st.ino, SubSeq(all, 1, k))]

BarFlyWrite ==
    /\ pc = "song"
    /\ nwrites < MaxWrites
    /\ \E short \in BOOLEAN :
        LET data == AudioStream[nwrites + 1]
        IN IF fly.completed
        THEN /\ call' = [op |-> "BarFlyWrite", ret |-> 0, trace |-> <<>>]
             /\ UNCHANGED <<pc, stream, fs, written, nwrites>>
        ELSE IF fly.audio_file = NULL
        THEN /\ Crash("BarFlyWrite")
             /\ UNCHANGED <<stream, fs, written, nwrites>>
        ELSE IF short
        THEN /\ call' = [op |-> "BarFlyWrite", ret |-> -1,
                         trace |-> <<Ev("fwrite", fly.audio_file_path, "EIO")>>]
             /\ written' = [written EXCEPT !.failed = TRUE]
             /\ nwrites' = nwrites + 1
             /\ UNCHANGED <<pc, stream, fs>>
        ELSE \E k \in 0..Len(stream.buf \o data) :
             LET w == StreamWrite(stream, fs, data, k)
             IN /\ stream' = w.stream
                /\ fs' = w.fs
                /\ written' = [written EXCEPT !.data = @ \o data]
                /\ nwrites' = nwrites + 1
                /\ call' = [op |-> "BarFlyWrite", ret |-> 0,
                            trace |-> <<Ev("fwrite", fly.audio_file_path, "")>>]
                /\ UNCHANGED pc
    /\ UNCHANGED <<mp4tag, settings, song, fly, tmp, freed, procs, cpath>>

TagEffect(w) ==
    /\ fly' = TagResultFly(fly, w.ret)
    /\ fs' = w.fs
    /\ tmp' = w.tmp
    /\ call' = [op |-> "BarFlyTag", ret |-> w.ret, trace |-> w.trace]
    /\ written' = [written EXCEPT !.tagged = IF w.ret = 0 THEN "ok" ELSE "failed"]
    /\ UNCHANGED pc

BarFlyTag ==
    /\ pc = "song"
    /\ \E fault \in TagFaults, garbage \in UninitializedPaths, bld \in Builds :
        IF fly.completed
        THEN /\ call' = [op |-> "BarFlyTag", ret |-> 0, trace |-> <<>>]
             /\ UNCHANGED <<pc, fly, fs, tmp, written>>
        ELSE IF fly.audio_file = NULL /\ bld = "assert"
        THEN /\ Crash("BarFlyTag")
             /\ UNCHANGED <<fly, fs, tmp, written>>
        ELSE TagEffect(_BarFlyTagWrite(fs, tmp, fly, settings,
                                       fault # "cover_fetch", fault,
                                       fault # "parse", garbage))
    /\ UNCHANGED <<mp4tag, settings, song, stream, nwrites, freed, procs, cpath>>

\* What BarFlyClose leaves once its delete step ended as d.
CloseReturn(fl, st, fr, d, crash, t1, t2) ==
    [crash |-> crash,
     fly |-> IF fl.completed THEN fl ELSE [fl EXCEPT !.status = "DELETING"],
     fs |-> d.fs,
     stream |-> [st EXCEPT !.open = FALSE, !.buf = <<>>],
     freed |-> fr \cup (IF fl.audio_file_path # NULL THEN {"audio_file_path"} ELSE {})
                  \cup (IF fl.cover_art_url # NULL THEN {"cover_art_url"} ELSE {}),
     ret |-> d.ret,
     trace |-> t1 \o d.trace \o t2]

\* BarFlyClose: [crash, fly, fs, stream, freed, ret, trace].
DoBarFlyClose(fl, f, st, fr, fault, ub) ==
    LET doubleClose == fl.audio_file # NULL /\ ~st.open
        staleRead == ~fl.completed /\ "audio_file_path" \in fr
        doubleFree == \/ fl.audio_file_path # NULL /\ "audio_file_path" \in fr
                      \/ fl.cover_art_url # NULL /\ "cover_art_url" \in fr
        closing == fl.audio_file # NULL /\ st.open
        f1 == IF closing THEN SysWrite(f, st.ino, st.buf) ELSE f
        t1 == IF fl.audio_file # NULL
              THEN <<Ev("fclose", fl.audio_file_path, IF closing THEN "" ELSE "EBADF")>>
              ELSE <<>>
        path == IF staleRead /\ ub = "empty" THEN <<>> ELSE fl.audio_file_path
        t2 == (IF fl.audio_file_path # NULL
               THEN <<Ev("free", "audio_file_path", "")>> ELSE <<>>)
              \o (IF fl.cover_art_url # NULL
                  THEN <<Ev("free", "cover_art_url", "")>> ELSE <<>>)
    IN CloseReturn(fl, st, fr,
                   IF fl.completed THEN [fs |-> f1, ret |-> 0, trace |-> <<>>]
                   ELSE _BarFlyFileDelete(f1, path, fault),
                   (doubleClose \/ staleRead \/ doubleFree) /\ ub = "crash",
                   t1, t2)

CloseEffect(r) ==
    IF r.crash
    THEN /\ Crash("BarFlyClose")
         /\ UNCHANGED <<fly, fs, stream, freed>>
    ELSE /\ fly' = r.fly
         /\ fs' = r.fs
         /\ stream' = r.stream
         /\ freed' = r.freed
         /\ call' = [op |-> "BarFlyClose", ret |-> r.ret, trace |-> r.trace]
         /\ pc' = IF pc = "song" THEN "closed" ELSE "closed2"

BarFlyClose ==
    /\ pc \in {"song", "closed"}
    /\ \E fault \in CloseFaults, ub \in UBOutcomes :
        CloseEffect(DoBarFlyClose(fly, fs, stream, freed, fault, ub))
    /\ UNCHANGED <<mp4tag, settings, song, tmp, nwrites, written, procs, cpath>>

Init ==
    /\ settings \in [audioFileDir : AudioFileDirs, audioFileName : Templates,
                     useSpaces : {FALSE}, embedCover : BOOLEAN]
    /\ song \in [artist : Artists, album : Albums, title : Titles,
                 audioFormat : SongFormats]
    /\ fly = CallerFly
    /\ stream = NoStream
    /\ fs = [dirs |-> {<<>>}, files |-> <<>>, cwd |-> <<>>, next |-> 1]
    /\ tmp = NoTmp
    /\ call = NoCall
    /\ pc = "boot"
    /\ nwrites = 0
    /\ written = NoneWritten
    /\ freed = {}
    /\ procs = NoProcs
    /\ cpath = <<>>
    /\ mp4tag = NoTag

Next ==
    \/ BarFlyInit
    \/ EarlierRecording
    \/ BarFlyOpen
    \/ BarFlyWrite
    \/ BarFlyTag
    \/ BarFlyClose

Spec == Init /\ [][Next]_vars

---------------------------------------------------------------------------
(* fly.c: BarFlyOpen under every outcome of its two fetches and three      *)
(* parses.                                                                 *)

\* Every combination of success and failure of the album-detail fetch, the
\* year parse, the cover-URL parse, the album-explorer fetch and the
\* track/disc parse.
AllMetaOutcomes == [detail : BOOLEAN, year : BOOLEAN, cover : BOOLEAN,
                    explorer : BOOLEAN, trackdisc : BOOLEAN]

OpenMetaEffect(r, meta, fault) ==
    /\ fly' = r.fly
    /\ fs' = r.fs
    /\ stream' = r.stream
    /\ call' = [op |-> "BarFlyOpen", ret |-> r.ret, trace |-> r.trace,
                meta |-> meta, fault |-> fault]

BarFlyOpenMeta ==
    /\ pc = "init"
    /\ \E meta \in AllMetaOutcomes, fault \in OpenFaults :
        OpenMetaEffect(DoBarFlyOpen(fly, fs, song, settings, meta, fault), meta, fault)
    /\ pc' = "song"
    /\ UNCHANGED <<mp4tag, settings, song, tmp, nwrites, written, freed, procs, cpath>>

NextMeta ==
    \/ BarFlyInit
    \/ BarFlyOpenMeta

SpecMeta == Init /\ [][NextMeta]_vars


---------------------------------------------------------------------------
(* fly.c: two processes in _BarFlyFileOpen on the same path, one system
   call at a time. *)

Creators == {1, 2}

\* strchr(path + i - 1, '/') as an index into path, 0 for NULL.
RECURSIVE StrchrSlash(_, _)
StrchrSlash(path, i) ==
    IF i > Len(path) THEN 0
    ELSE IF path[i] = s_slash THEN i
    ELSE StrchrSlash(path, i + 1)

\* A process entering _BarFlyFileOpen: ptr = strchr(path, '/').
EnterFileOpen(path) ==
    [ptr |-> StrchrSlash(path, 1),
     pc |-> IF StrchrSlash(path, 1) = 0 THEN "open" ELSE "mkdir",
     fd |-> 0, fp |-> 0, ret |-> 0, eintr |-> 0, fault |-> FALSE]

\* The process after mkdir(dir_path) returned r.
AfterMkdir(pr, r) ==
    IF r.err \notin {"", "EEXIST"}
    THEN [pr EXCEPT !.pc = "done", !.ret = -1, !.fault = TRUE]
    ELSE [pr EXCEPT !.ptr = StrchrSlash(cpath, pr.ptr + 1),
                    !.pc = IF StrchrSlash(cpath, pr.ptr + 1) = 0 THEN "open"
                           ELSE "mkdir"]

MkdirEffect(p, r) ==
    /\ fs' = r.fs
    /\ procs' = [procs EXCEPT ![p] = AfterMkdir(@, r)]

\* One turn of the parent-directory loop of process p.
FileOpenMkdir(p) ==
    /\ procs[p].pc = "mkdir"
    /\ MkdirEffect(p, SysMkdir(fs, SubSeq(cpath, 1, procs[p].ptr - 1)))
    /\ UNCHANGED <<mp4tag, settings, song, fly, stream, tmp, call, pc, nwrites, written,
                   freed, cpath>>

\* The process after open(path, O_WRONLY | O_CREAT | O_EXCL) returned o.
AfterOpenExcl(pr, o) ==
    IF o.err = "" THEN [pr EXCEPT !.pc = "fdopen", !.fd = o.ino]
    ELSE IF o.err = "EEXIST" THEN [pr EXCEPT !.pc = "done", !.ret = -2]
    ELSE [pr EXCEPT !.pc = "done", !.ret = -1, !.fault = TRUE]

OpenExclEffect(p, o) ==
    /\ fs' = o.fs
    /\ procs' = [procs EXCEPT ![p] = AfterOpenExcl(@, o)]

\* The open(2) of process p in _BarFlyFileOpenStream.
FileOpenExcl(p) ==
    /\ procs[p].pc = "open"
    /\ OpenExclEffect(p, SysOpenExcl(fs, cpath))
    /\ UNCHANGED <<mp4tag, settings, song, fly, stream, tmp, call, pc, nwrites, written,
                   freed, cpath>>

\* open(2) or fdopen(3) of process p is interrupted: the loop calls it again.
FileOpenEintr(p) ==
    /\ procs[p].pc \in {"open", "fdopen"}
    /\ procs[p].eintr < MaxEintr
    /\ procs' = [procs EXCEPT ![p].eintr = @ + 1]
    /\ UNCHANGED <<mp4tag, settings, song, fly, stream, fs, tmp, call, pc, nwrites,
                   written, freed, cpath>>

\* The fdopen(3) of process p: the stream, or on an error other than EINTR
\* close(fd) and NULL, which _BarFlyFileOpen returns as -1.
FileOpenFdopen(p) ==
    /\ procs[p].pc = "fdopen"
    /\ \E ok \in BOOLEAN :
        procs' = [procs EXCEPT ![p] =
                    IF ok THEN [@ EXCEPT !.pc = "done", !.fp = procs[p].fd, !.ret = 0]
                    ELSE [@ EXCEPT !.pc = "done", !.ret = -1, !.fault = TRUE]]
    /\ UNCHANGED <<mp4tag, settings, song, fly, stream, fs, tmp, call, pc, nwrites,
                   written, freed, cpath>>

\* The paths the two processes may be given: every path the templates render
\* for the songs, in the recording directory BarFlyInit has entered.
Init2 ==
    /\ settings \in [audioFileDir : AudioFileDirs, audioFileName : Templates,
                     useSpaces : {FALSE}, embedCover : {FALSE}]
    /\ song \in [artist : Artists, album : Albums, title : Titles,
                 audioFormat : {"MP3"}]
    /\ fly = CallerFly
    /\ stream = NoStream
    /\ fs = DoBarFlyInit([dirs |-> {<<>>}, files |-> <<>>, cwd |-> <<>>, next |-> 1],
                         settings.audioFileDir).fs
    /\ tmp = NoTmp
    /\ call = NoCall
    /\ pc = "race"
    /\ nwrites = 0
    /\ written = NoneWritten
    /\ freed = {}
    /\ cpath = _BarFlyFileGetPath(song.artist, song.album, song.title, 0, 0, 0,
                                  song.audioFormat, settings, TRUE)
    /\ procs = [p \in Creators |-> EnterFileOpen(cpath)]
    /\ mp4tag = NoTag

Next2 ==
    \E p \in Creators :
        \/ FileOpenMkdir(p)
        \/ FileOpenExcl(p)
        \/ FileOpenEintr(p)
        \/ FileOpenFdopen(p)

SpecOpen2 == Init2 /\ [][Next2]_vars


---------------------------------------------------------------------------
(* fly.c: _BarFlyFileGetPath on its own, over names with every byte
   _BarFlyNameTranslate treats specially and a name longer than its buffers. *)

\* A name of BAR_FLY_NAME_LENGTH bytes, none of them translated.
LongName == [i \in 1..BAR_FLY_NAME_LENGTH |-> "a"]

PathNames == { <<"a">>,
               <<"A", " ", "b">>,
               <<"/", c_backslash, "|", ":", ";", "*", c_backtick>>,
               <<"<", "x", ">">>,
               << c_dquote, "?", "q">>,
               LongName }

PathTemplates == { tok_artist \o <<"/">> \o tok_album \o <<"/">> \o tok_title,
                   tok_artist \o <<"-", "%", "q">> \o tok_title,
                   tok_year \o <<"/">> \o tok_track \o <<"-">> \o tok_disc
                        \o <<" ">> \o tok_title,
                   <<"%">> \o tok_artist \o <<"%">> }

\* The three buffers path_artist, path_album, path_title as
\* _BarFlyNameTranslate fills them.
PathBuffers(sng, set) ==
    << _BarFlyNameTranslate(sng.artist, set.useSpaces),
       _BarFlyNameTranslate(sng.album, set.useSpaces),
       _BarFlyNameTranslate(sng.title, set.useSpaces) >>

\* A translated name with its NUL does not fit a buffer of
\* BAR_FLY_NAME_LENGTH bytes: _BarFlyNameTranslate writes past its end.
BufferOverrun(bufs) == \E i \in 1..3 : Len(bufs[i]) + 1 > BAR_FLY_NAME_LENGTH

\* _BarFlyFileGetPath returns; after a buffer overrun the process aborts, or
\* goes on when the bytes past the buffer held nothing it needs.
FileGetPath ==
    /\ pc = "render"
    /\ \E year \in {0, PageYear}, track \in {PageTrack, 12}, ub \in {"crash", "intact"} :
        IF BufferOverrun(PathBuffers(song, settings)) /\ ub = "crash"
        THEN Crash("_BarFlyFileGetPath")
        ELSE /\ pc' = "rendered"
             /\ call' = [op |-> "_BarFlyFileGetPath",
                         ret |-> _BarFlyFileGetPath(song.artist, song.album,
                                     song.title, year, track, PageDisc,
                                     song.audioFormat, settings, TRUE),
                         trace |-> PathBuffers(song, settings),
                         year |-> year, track |-> track, disc |-> PageDisc]
    /\ UNCHANGED <<mp4tag, settings, song, fly, stream, fs, tmp, nwrites, written, freed,
                   procs, cpath>>

InitPath ==
    /\ settings \in [audioFileDir : { <<"/", "r">> }, audioFileName : PathTemplates,
                     useSpaces : BOOLEAN, embedCover : {FALSE}]
    /\ song \in [artist : PathNames, album : { <<"b">>, <<"?", " ">> },
                 title : { <<"t">>, <<"<", ":", ">">> }, audioFormat : {"MP3", "AACPLUS"}]
    /\ fly = CallerFly
    /\ stream = NoStream
    /\ fs = [dirs |-> {<<>>}, files |-> <<>>, cwd |-> <<>>, next |-> 1]
    /\ tmp = NoTmp
    /\ call = NoCall
    /\ pc = "render"
    /\ nwrites = 0
    /\ written = NoneWritten
    /\ freed = {}
    /\ procs = NoProcs
    /\ cpath = <<>>
    /\ mp4tag = NoTag

NextPath == FileGetPath

SpecPath == InitPath /\ [][NextPath]_vars

---------------------------------------------------------------------------
(* fly_mp4.c: the MP4 tag editor.  A file is a sequence of bytes 0..255; an *)
(* atom is a record name, size, data, data_size, offset, children, closed;  *)
(* the parent pointer of the code is the atom's place in its parent's       *)
(* children.                                                                 *)

Ascii ==
    [c \in {"a"} |-> 97] @@ [c \in {"b"} |-> 98] @@ [c \in {"c"} |-> 99]
    @@ [c \in {"d"} |-> 100] @@ [c \in {"e"} |-> 101] @@ [c \in {"f"} |-> 102]
    @@ [c \in {"h"} |-> 104] @@ [c \in {"i"} |-> 105] @@ [c \in {"k"} |-> 107]
    @@ [c \in {"l"} |-> 108] @@ [c \in {"m"} |-> 109] @@ [c \in {"n"} |-> 110]
    @@ [c \in {"o"} |-> 111] @@ [c \in {"p"} |-> 112] @@ [c \in {"r"} |-> 114]
    @@ [c \in {"s"} |-> 115] @@ [c \in {"t"} |-> 116] @@ [c \in {"u"} |-> 117]
    @@ [c \in {"v"} |-> 118] @@ [c \in {"y"} |-> 121] @@ [c \in {"z"} |-> 122]
    @@ [c \in {"A"} |-> 65] @@ [c \in {"B"} |-> 66] @@ [c \in {"R"} |-> 82]
    @@ [c \in {"T"} |-> 84] @@ [c \in {"D"} |-> 68] @@ [c \in {"I"} |-> 73] @@ [c \in {"\\251"} |-> 169]
    @@ [c \in {"0"} |-> 48] @@ [c \in {"1"} |-> 49] @@ [c \in {"2"} |-> 50]
    @@ [c \in {"3"} |-> 51] @@ [c \in {"4"} |-> 52] @@ [c \in {"5"} |-> 53]
    @@ [c \in {"6"} |-> 54] @@ [c \in {"7"} |-> 55] @@ [c \in {"8"} |-> 56]
    @@ [c \in {"9"} |-> 57]

\* The bytes a fopen(path, "rb") handle reads, NoBytes when the open fails.
FOpenRb(f, s) ==
    IF Resolve(f, s) = NoNode THEN NoBytes
    ELSE IF Resolve(f, s) \notin DOMAIN f.files THEN NoBytes
    ELSE f.files[Resolve(f, s)].data

\* The bytes of a C string.
Bytes(s) == [i \in 1..Len(s) |-> Ascii[s[i]]]

Zeros(n) == [i \in 1..n |-> 0]

BAR_FLY_MP4_SHORT_LENGTH == 2
BAR_FLY_MP4_ATOM_SIZE_LENGTH == 4
BAR_FLY_MP4_ATOM_NAME_LENGTH == 4
BAR_FLY_MP4_ATOM_MIN_LENGTH == BAR_FLY_MP4_ATOM_SIZE_LENGTH + BAR_FLY_MP4_ATOM_NAME_LENGTH
BAR_FLY_MP4_ATOM_META_DATA == Zeros(4)
BAR_FLY_MP4_ATOM_HDLR_DATA ==
    Zeros(8) \o Bytes(<<"m", "d", "i", "r", "a", "p", "p", "l">>) \o Zeros(9)
BAR_FLY_MP4_ATOM_CLASS_LENGTH == 4

\* The class of each metadata atom, and its name.
AtomClass ==
    [album |-> <<0, 0, 0, 1>>, artist |-> <<0, 0, 0, 1>>, cover |-> <<0, 0, 0, 21>>,
     disk |-> <<0, 0, 0, 0>>, title |-> <<0, 0, 0, 1>>, track |-> <<0, 0, 0, 0>>,
     year |-> <<0, 0, 0, 1>>]

MetaName ==
    [album |-> Bytes(<<"\\251", "a", "l", "b">>), artist |-> Bytes(<<"\\251", "A", "R", "T">>),
     cover |-> Bytes(<<"c", "o", "v", "r">>), disk |-> Bytes(<<"d", "i", "s", "k">>),
     title |-> Bytes(<<"\\251", "n", "a", "m">>), track |-> Bytes(<<"t", "r", "k", "n">>),
     year |-> Bytes(<<"\\251", "d", "a", "y">>)]

\* An atom name of the code, as its four bytes.
Nm(a, b, c, d) == Bytes(<<a, b, c, d>>)

n_ftyp == Nm("f", "t", "y", "p")
n_moov == Nm("m", "o", "o", "v")
n_udta == Nm("u", "d", "t", "a")
n_meta == Nm("m", "e", "t", "a")
n_hdlr == Nm("h", "d", "l", "r")
n_ilst == Nm("i", "l", "s", "t")
n_data == Nm("d", "a", "t", "a")
n_stco == Nm("s", "t", "c", "o")
n_stsd == Nm("s", "t", "s", "d")
n_mp4a == Nm("m", "p", "4", "a")

\* The names _BarFlyMp4FileParseAtom takes for atoms with children only.
ContainerNames ==
    { Nm("d", "i", "n", "f"), Nm("m", "d", "i", "a"), Nm("m", "i", "n", "f"), n_moov,
      Nm("s", "t", "b", "l"), Nm("t", "r", "a", "k") }

\* The names _BarFlyMp4FileParseAtom takes for atoms with data only.
PayloadNames ==
    { Nm("d", "r", "e", "f"), Nm("e", "s", "d", "s"), n_hdlr, Nm("i", "o", "d", "s"),
      Nm("m", "d", "h", "d"), Nm("m", "v", "h", "d"), Nm("s", "m", "h", "d"), n_stco,
      Nm("s", "t", "s", "c"), Nm("s", "t", "s", "z"), Nm("s", "t", "t", "s"),
      Nm("t", "k", "h", "d") }

\* The names whose data _BarFlyMp4FileParseAtomData reads from the file.
LoadableNames == PayloadNames \cup {n_ftyp}

\* _BarFlyMp4LongRender: the low four bytes of lsize, big-endian.
_BarFlyMp4LongRender(lsize) ==
    << (lsize \div 16777216) % 256, (lsize \div 65536) % 256,
       (lsize \div 256) % 256, lsize % 256 >>

\* _BarFlyMp4ShortRender: the low two bytes of value, big-endian.
_BarFlyMp4ShortRender(value) == << (value \div 256) % 256, value % 256 >>

\* _BarFlyMp4BufToLong: the first four bytes of buffer as a number.  Each
\* byte is shifted as an int and or-ed into the long: a first byte of 128 or
\* more lands in the sign bit of the int, and the long is then negative.
_BarFlyMp4BufToLong(buffer) ==
    (IF buffer[1] >= 128 THEN buffer[1] - 256 ELSE buffer[1]) * 16777216
    + buffer[2] * 65536 + buffer[3] * 256 + buffer[4]

\* fread of size bytes at position pos (0-based) of a file: the bytes, or NoBytes
\* when the file ends before them.
FRead(file, pos, size) ==
    IF pos + size > Len(file) THEN NoBytes ELSE SubSeq(file, pos + 1, pos + size)

\* _BarFlyMp4AtomOpen: a new atom of the minimum size.
_BarFlyMp4AtomOpen(name, offset) ==
    [name |-> name, size |-> BAR_FLY_MP4_ATOM_MIN_LENGTH, data |-> NoBytes,
     data_size |-> 0, offset |-> offset, children |-> <<>>, closed |-> FALSE]

\* _BarFlyMp4AtomBumpSize on one atom: atom->size += delta.  Its recursion
\* over atom->parent is the walk of AddChildAt and AppendDataAt down the path.
_BarFlyMp4AtomBumpSize(size, delta) == size + delta

\* _BarFlyMp4AtomAddChild on an atom that has no parent yet.
_BarFlyMp4AtomAddChild(parent, child) ==
    [parent EXCEPT !.children = Append(@, child),
                   !.size = _BarFlyMp4AtomBumpSize(@, child.size)]

\* _BarFlyMp4AtomAddChild on the atom p names below atom (p: child indices):
\* the child is appended there, and every atom on the way up is bumped.
RECURSIVE AddChildAt(_, _, _)
AddChildAt(atom, p, child) ==
    IF p = <<>> THEN _BarFlyMp4AtomAddChild(atom, child)
    ELSE [atom EXCEPT !.size = _BarFlyMp4AtomBumpSize(@, child.size),
                      !.children[p[1]] = AddChildAt(@, Tail(p), child)]

\* _BarFlyMp4AtomAppendData that leaves atom->size as it was.
AppendDataKeepsSize(atom, data) ==
    IF Len(data) = 0 THEN atom
    ELSE [atom EXCEPT !.data = (IF @ = NoBytes THEN <<>> ELSE @) \o data,
                      !.data_size = @ + Len(data)]

\* _BarFlyMp4AtomAppendData on an atom that has no parent: data of size > 0
\* is appended, data_size and size grow by it.
_BarFlyMp4AtomAppendData(atom, data) ==
    IF Len(data) = 0 THEN atom
    ELSE [atom EXCEPT !.data = (IF @ = NoBytes THEN <<>> ELSE @) \o data,
                      !.data_size = @ + Len(data),
                      !.size = _BarFlyMp4AtomBumpSize(@, Len(data))]

\* _BarFlyMp4AtomClose: the children and the data are freed, the atom stays.
RECURSIVE _BarFlyMp4AtomClose(_)
_BarFlyMp4AtomClose(atom) ==
    [atom EXCEPT !.closed = TRUE,
                 !.children = [i \in DOMAIN @ |-> _BarFlyMp4AtomClose(@[i])]]

\* The atom p names below atom.
RECURSIVE AtomAt(_, _)
AtomAt(atom, p) == IF p = <<>> THEN atom ELSE AtomAt(atom.children[p[1]], Tail(p))

\* atom with the atom p names replaced by a.
RECURSIVE AtomPut(_, _, _)
AtomPut(atom, p, a) ==
    IF p = <<>> THEN a
    ELSE [atom EXCEPT !.children[p[1]] = AtomPut(@, Tail(p), a)]

\* The index of the first of atoms named name, 0 when there is none.
FirstNamed(atoms, name) ==
    IF \E i \in DOMAIN atoms : atoms[i].name = name
    THEN CHOOSE i \in DOMAIN atoms :
            atoms[i].name = name /\ \A j \in 1..(i - 1) : atoms[j].name # name
    ELSE 0

\* The walk of _BarFlyMp4TagFindAtom below atom along names: child indices,
\* or NoBytes when a name has no match; the first match is taken at each level.
RECURSIVE FindBelow(_, _)
FindBelow(atom, names) ==
    IF names = <<>> THEN <<>>
    ELSE LET i == FirstNamed(atom.children, Head(names))
         IN IF i = 0 THEN NoBytes
            ELSE LET rest == FindBelow(atom.children[i], Tail(names))
                 IN IF rest = NoBytes THEN NoBytes ELSE <<i>> \o rest

\* _BarFlyMp4TagFindAtom: the place of the atom the dotted path names, as the
\* index into tag->atoms followed by child indices, or NoBytes.
_BarFlyMp4TagFindAtom(tg, path) ==
    LET i == FirstNamed(tg.atoms, Head(path))
    IN IF i = 0 THEN NoBytes
       ELSE LET rest == FindBelow(tg.atoms[i], Tail(path))
            IN IF rest = NoBytes THEN NoBytes ELSE <<i>> \o rest

\* _BarFlyMp4FileParseAtomSize at position pos: the size, or -1 when the read
\* fails or the size is below the minimum.
_BarFlyMp4FileParseAtomSize(file, pos) ==
    IF FRead(file, pos, BAR_FLY_MP4_ATOM_SIZE_LENGTH) = NoBytes THEN -1
    ELSE IF _BarFlyMp4BufToLong(FRead(file, pos, BAR_FLY_MP4_ATOM_SIZE_LENGTH))
                < BAR_FLY_MP4_ATOM_MIN_LENGTH THEN -1
    ELSE _BarFlyMp4BufToLong(FRead(file, pos, BAR_FLY_MP4_ATOM_SIZE_LENGTH))

\* The data_size _BarFlyMp4FileParseAtom gives an atom of that name and size,
\* -1 for a name it does not know.
AtomDataSize(name, size_l) ==
    IF name \in ContainerNames THEN 0
    ELSE IF name \in PayloadNames THEN size_l - BAR_FLY_MP4_ATOM_MIN_LENGTH
    ELSE IF name = n_stsd THEN 8
    ELSE IF name = n_mp4a THEN 28
    ELSE -1

NoAtom == _BarFlyMp4AtomOpen(<<>>, -1)

\* The error exit of _BarFlyMp4FileParseAtom: no atom, the file position back
\* at start_pos.
ParseFailed(start_pos) == [ok |-> FALSE, atom |-> NoAtom, pos |-> start_pos]

RECURSIVE _BarFlyMp4FileParseAtom(_, _)
RECURSIVE ParseChildren(_, _, _)

\* One turn of the child loop, c the child just parsed.
ParseChild(file, r, remaining, c) ==
    IF ~c.ok \/ c.atom.size > remaining THEN ParseFailed(r.atom.offset)
    ELSE ParseChildren(file,
                       [ok |-> TRUE, atom |-> _BarFlyMp4AtomAddChild(r.atom, c.atom),
                        pos |-> c.pos],
                       remaining - c.atom.size)

\* The child loop of _BarFlyMp4FileParseAtom: while (remaining > 0).
ParseChildren(file, r, remaining) ==
    IF remaining = 0 THEN r
    ELSE ParseChild(file, r, remaining, _BarFlyMp4FileParseAtom(file, r.pos))

\* _BarFlyMp4FileParseAtom reading the data of the atom as it parses it.
ParseAtomNamedLoadsData(file, start_pos, size_l, name) ==
    IF size_l = -1 \/ name = NoBytes THEN ParseFailed(start_pos)
    ELSE IF AtomDataSize(name, size_l) = -1 THEN ParseFailed(start_pos)
    ELSE IF size_l < BAR_FLY_MP4_ATOM_MIN_LENGTH + AtomDataSize(name, size_l)
         THEN ParseFailed(start_pos)
    ELSE ParseChildren(file,
            [ok |-> TRUE,
             atom |-> [_BarFlyMp4AtomOpen(name, start_pos) EXCEPT
                          !.data = FRead(file, start_pos + BAR_FLY_MP4_ATOM_MIN_LENGTH,
                                         AtomDataSize(name, size_l)),
                          !.data_size = AtomDataSize(name, size_l),
                          !.size = BAR_FLY_MP4_ATOM_MIN_LENGTH + AtomDataSize(name, size_l)],
             pos |-> start_pos + BAR_FLY_MP4_ATOM_MIN_LENGTH + AtomDataSize(name, size_l)],
            size_l - (BAR_FLY_MP4_ATOM_MIN_LENGTH + AtomDataSize(name, size_l)))

\* _BarFlyMp4FileParseAtom once the size and the name are read.  A size below
\* the atom's own header and data leaves remaining, a size_t, wrapped around:
\* the child loop then runs into the end of the file and fails.
ParseAtomNamed(file, start_pos, size_l, name) ==
    IF size_l = -1 \/ name = NoBytes THEN ParseFailed(start_pos)
    ELSE IF AtomDataSize(name, size_l) = -1 THEN ParseFailed(start_pos)
    ELSE IF size_l < BAR_FLY_MP4_ATOM_MIN_LENGTH + AtomDataSize(name, size_l)
         THEN ParseFailed(start_pos)
    ELSE ParseChildren(file,
            [ok |-> TRUE,
             atom |-> [_BarFlyMp4AtomOpen(name, start_pos) EXCEPT
                          !.data_size = AtomDataSize(name, size_l),
                          !.size = BAR_FLY_MP4_ATOM_MIN_LENGTH + AtomDataSize(name, size_l)],
             pos |-> start_pos + BAR_FLY_MP4_ATOM_MIN_LENGTH + AtomDataSize(name, size_l)],
            size_l - (BAR_FLY_MP4_ATOM_MIN_LENGTH + AtomDataSize(name, size_l)))

\* _BarFlyMp4FileParseAtom at file position start_pos: [ok, atom, pos].  The
\* data is not read: only its size is kept, and the position moves past it.
_BarFlyMp4FileParseAtom(file, start_pos) ==
    ParseAtomNamed(file, start_pos, _BarFlyMp4FileParseAtomSize(file, start_pos),
                   FRead(file, start_pos + BAR_FLY_MP4_ATOM_SIZE_LENGTH,
                         BAR_FLY_MP4_ATOM_NAME_LENGTH))

\* Does _BarFlyMp4FileParseAtomData have to read the atom's data?
NeedsLoad(atom) ==
    atom.data = NoBytes /\ atom.data_size > 0 /\ atom.name \in LoadableNames

\* _BarFlyMp4FileParseAtomData: the atom with its data read from the file at
\* offset + 8; not ok when the allocation or the read fails.
_BarFlyMp4FileParseAtomData(file, atom, fails) ==
    IF ~NeedsLoad(atom) THEN [ok |-> TRUE, atom |-> atom]
    ELSE IF fails \/ FRead(file, atom.offset + BAR_FLY_MP4_ATOM_MIN_LENGTH,
                           atom.data_size) = NoBytes
         THEN [ok |-> FALSE, atom |-> atom]
    ELSE [ok |-> TRUE,
          atom |-> [atom EXCEPT !.data =
                        FRead(file, atom.offset + BAR_FLY_MP4_ATOM_MIN_LENGTH,
                              atom.data_size)]]

\* The path of the chunk offset table _BarFlyMp4TagUpdateOffsets looks up.
StcoPath ==
    << n_moov, Nm("t", "r", "a", "k"), Nm("m", "d", "i", "a"), Nm("m", "i", "n", "f"),
       Nm("s", "t", "b", "l"), n_stco >>

\* The end of the bytes of the stco buffer the loop of
\* _BarFlyMp4TagUpdateOffsets reads and writes: pos = data + 4, the count is
\* read from the four bytes there, then four bytes more are read and written
\* for each of count entries.  No data_size is looked at.  A buffer that ends
\* before the count does (or no buffer at all) gives a count nobody knows:
\* the reach is then that of the count alone.
UpdateOffsetsReach(atom) ==
    IF atom.data = NoBytes THEN 8
    ELSE IF Len(atom.data) < 8 THEN 8
    ELSE 8 + 4 * _BarFlyMp4BufToLong(SubSeq(atom.data, 5, 8))

\* The data of an stco atom with delta added to each of its count entries
\* (4 bytes of version and flags, 4 of count, then 4 per entry); of what the
\* loop does past the end of the data, nothing is seen in the data.
ShiftedOffsets(data, delta) ==
    LET count == _BarFlyMp4BufToLong(SubSeq(data, 5, 8))
    IN [i \in 1..Len(data) |->
          IF i <= 8 \/ i > 8 + 4 * count \/ 12 + 4 * ((i - 9) \div 4) > Len(data)
          THEN data[i]
          ELSE LET k == (i - 9) \div 4
               IN _BarFlyMp4LongRender(
                     _BarFlyMp4BufToLong(SubSeq(data, 9 + 4 * k, 12 + 4 * k)) + delta
                  )[i - 8 - 4 * k]]

\* The loop of _BarFlyMp4TagUpdateOffsets that leaves the entries as they are.
UpdateOffsetsShiftsNothing(s, delta, p, ld) ==
    IF ~ld.ok THEN [s EXCEPT !.status = -1,
                             !.nfail = IF @ > 0 THEN @ - 1 ELSE 0]
    ELSE [s EXCEPT !.tag.atoms[p[1]] = AtomPut(@, Tail(p), ld.atom),
                   !.overrun = @ \/ UpdateOffsetsReach(ld.atom) > ld.atom.data_size]

\* _BarFlyMp4TagUpdateOffsets once the stco atom is found at p and
\* _BarFlyMp4FileParseAtomData returned ld; overrun is set when the loop
\* leaves the data buffer.
UpdateOffsetsLoaded(s, delta, p, ld) ==
    IF ~ld.ok THEN [s EXCEPT !.status = -1,
                             !.nfail = IF @ > 0 THEN @ - 1 ELSE 0]
    ELSE [s EXCEPT !.tag.atoms[p[1]] =
              AtomPut(@, Tail(p),
                      IF ld.atom.data = NoBytes THEN ld.atom
                      ELSE IF Len(ld.atom.data) < 8 THEN ld.atom
                      ELSE [ld.atom EXCEPT !.data = ShiftedOffsets(@, delta)]),
                   !.overrun = @ \/ UpdateOffsetsReach(ld.atom) > ld.atom.data_size]

\* _BarFlyMp4TagUpdateOffsets on s = [tag, nfail, status, overrun]: nfail
\* counts the coming reads of the stco data that fail.
UpdateOffsetsAt(s, delta, p) ==
    IF p = NoBytes THEN s
    ELSE UpdateOffsetsLoaded(s, delta, p,
            _BarFlyMp4FileParseAtomData(s.tag.mp4_file,
                                        AtomAt(s.tag.atoms[p[1]], Tail(p)),
                                        s.nfail > 0))

_BarFlyMp4TagUpdateOffsets(s, delta) ==
    UpdateOffsetsAt(s, delta, _BarFlyMp4TagFindAtom(s.tag, StcoPath))

\* _BarFlyMp4TagAddAtom below a parent, the parent found at p.
TagAddAtomAt(s, p, atom, update_offsets, realloc_ok) ==
    IF p = NoBytes \/ ~realloc_ok THEN [s EXCEPT !.status = -1]
    ELSE IF update_offsets
         THEN _BarFlyMp4TagUpdateOffsets(
                 [s EXCEPT !.tag.atoms[p[1]] = AddChildAt(@, Tail(p), atom)],
                 atom.size)
    ELSE [s EXCEPT !.tag.atoms[p[1]] = AddChildAt(@, Tail(p), atom)]

\* _BarFlyMp4TagAddAtom on s = [tag, nfail, status]: the atom becomes a top
\* level atom (empty parent_path) or the last child of the parent, and the
\* chunk offsets grow by the atom's size.
_BarFlyMp4TagAddAtom(s, parent_path, atom, update_offsets, realloc_ok) ==
    IF parent_path = <<>>
    THEN IF ~realloc_ok THEN [s EXCEPT !.status = -1]
         ELSE IF update_offsets
              THEN _BarFlyMp4TagUpdateOffsets(
                      [s EXCEPT !.tag.atoms = Append(@, atom)], atom.size)
         ELSE [s EXCEPT !.tag.atoms = Append(@, atom)]
    ELSE TagAddAtomAt(s, _BarFlyMp4TagFindAtom(s.tag, parent_path), atom,
                      update_offsets, realloc_ok)

UdtaPath == <<n_moov, n_udta>>
MetaPath == <<n_moov, n_udta, n_meta>>
HdlrPath == <<n_moov, n_udta, n_meta, n_hdlr>>
IlstPath == <<n_moov, n_udta, n_meta, n_ilst>>

\* The atom at place p of the tag closed by _BarFlyMp4AtomClose.
TagCloseAtomAt(tg, p) ==
    IF p = NoBytes THEN tg
    ELSE [tg EXCEPT !.atoms[p[1]] =
             AtomPut(@, Tail(p), _BarFlyMp4AtomClose(AtomAt(@, Tail(p))))]

\* The exit of one "create the atom if it doesn't exist" block of
\* _BarFlyMp4TagAddMetaAtom, r what _BarFlyMp4TagAddAtom returned: a failure is
\* passed over (ignore), or goes to error, where the atom is closed, in the
\* tree or not.
AddMissingExit(r, path, ignore) ==
    IF r.status = 0 \/ ignore THEN [r EXCEPT !.status = 0]
    ELSE [r EXCEPT !.tag = TagCloseAtomAt(@, _BarFlyMp4TagFindAtom(@, path))]

\* One "create the atom if it doesn't exist" block.
AddMissing(s, path, atom, ignore) ==
    IF s.status # 0 \/ _BarFlyMp4TagFindAtom(s.tag, path) # NoBytes THEN s
    ELSE AddMissingExit(
            _BarFlyMp4TagAddAtom(s, SubSeq(path, 1, Len(path) - 1), atom, TRUE, TRUE),
            path, ignore)

\* The first block of _BarFlyMp4TagAddMetaAtom: udta, meta, hdlr and ilst are
\* created when moov.udta.meta.ilst is missing.
AddIlstChain(s) ==
    IF _BarFlyMp4TagFindAtom(s.tag, IlstPath) # NoBytes THEN s
    ELSE AddMissing(
           AddMissing(
             AddMissing(
               AddMissing(s, UdtaPath, _BarFlyMp4AtomOpen(n_udta, -1), TRUE),
               MetaPath,
               _BarFlyMp4AtomAppendData(_BarFlyMp4AtomOpen(n_meta, -1),
                                        BAR_FLY_MP4_ATOM_META_DATA),
               FALSE),
             HdlrPath,
             _BarFlyMp4AtomAppendData(_BarFlyMp4AtomOpen(n_hdlr, -1),
                                      BAR_FLY_MP4_ATOM_HDLR_DATA),
             FALSE),
           IlstPath, _BarFlyMp4AtomOpen(n_ilst, -1), FALSE)

\* The metadata atom: name, with one child "data" holding the class, four
\* zero bytes and the value.
MetaAtom(name, class, data) ==
    _BarFlyMp4AtomAddChild(
        _BarFlyMp4AtomOpen(name, -1),
        _BarFlyMp4AtomAppendData(
            _BarFlyMp4AtomAppendData(
                _BarFlyMp4AtomAppendData(_BarFlyMp4AtomOpen(n_data, -1), class),
                Zeros(4)),
            data))

\* The second block of _BarFlyMp4TagAddMetaAtom: the metadata atom is made and
\* added to ilst; what _BarFlyMp4TagAddAtom returns there is passed over.
AddItem(s, name, class, data, fault) ==
    IF s.status # 0 THEN s
    ELSE IF fault = "atom_open" THEN [s EXCEPT !.status = -1]
    ELSE [_BarFlyMp4TagAddAtom(s, IlstPath, MetaAtom(name, class, data), TRUE,
                               fault # "add_child")
            EXCEPT !.status = 0]

\* The allocation and read failures of one BarFlyMp4TagAdd* call: the first
\* one or two reads of the stco data, the calloc of the metadata atom, the
\* realloc of ilst's children.
AddFaults == {"none", "load1", "load2", "atom_open", "add_child"}

\* _BarFlyMp4TagAddMetaAtom: [tag, nfail, status, overrun].
_BarFlyMp4TagAddMetaAtom(tg, name, class, data, fault) ==
    AddItem(AddIlstChain([tag |-> tg,
                          nfail |-> CASE fault = "load1" -> 1
                                      [] fault = "load2" -> 2
                                      [] OTHER -> 0,
                          status |-> 0, overrun |-> FALSE]),
            name, class, data, fault)

\* The bytes each BarFlyMp4TagAdd* function hands to
\* _BarFlyMp4TagAddMetaAtom: the string, the year printed into 4 characters,
\* the 8-byte track or disk buffer, the cover image.
MetaData(kind, value) ==
    CASE kind \in {"artist", "album", "title"} -> Bytes(value)
      [] kind = "year" -> Bytes(SubSeq(Fmt_hu(value), 1,
                                       IF Len(Fmt_hu(value)) < 4 THEN Len(Fmt_hu(value))
                                       ELSE 4))
      [] kind \in {"track", "disk"} ->
            Zeros(2) \o _BarFlyMp4ShortRender(value) \o Zeros(4)
      [] kind = "cover" -> value

\* BarFlyMp4TagAddAlbum, ...Artist, ...CoverArt, ...Disk, ...Title, ...Track,
\* ...Year: [tag, nfail, status].
BarFlyMp4TagAdd(tg, kind, value, fault) ==
    _BarFlyMp4TagAddMetaAtom(tg, MetaName[kind], AtomClass[kind],
                             MetaData(kind, value), fault)

\* BarFlyMp4TagClose: the file handle is closed and the tag freed.
BarFlyMp4TagClose(tg) == NoTag

\* The faults of BarFlyMp4TagOpen: calloc of the tag, strdup of the path,
\* fopen of the file, calloc of an atom while parsing.
TagOpenFaults == {"none", "calloc", "strdup", "fopen", "atom_open"}

\* BarFlyMp4TagOpen taking the second atom whatever its name.
TagOpenParsedAnyName(file_path, file, r) ==
    IF ~r.ok
    THEN BarFlyMp4TagClose([file_path |-> file_path, atoms |-> <<>>, mp4_file |-> file])
    ELSE [file_path |-> file_path, atoms |-> <<r.atom>>, mp4_file |-> file]

\* BarFlyMp4TagOpen once the file is open on bytes file and the second atom
\* is parsed as r: the atom has to be moov.
TagOpenParsed(file_path, file, r) ==
    IF ~r.ok \/ r.atom.name # n_moov
    THEN BarFlyMp4TagClose([file_path |-> file_path, atoms |-> <<>>, mp4_file |-> file])
    ELSE [file_path |-> file_path, atoms |-> <<r.atom>>, mp4_file |-> file]

\* BarFlyMp4TagOpen once the file is open: the first atom has to be ftyp and
\* is stepped over, the second is parsed and has to be moov.
TagOpenFile(file_path, file, size) ==
    IF \/ size = -1
       \/ FRead(file, BAR_FLY_MP4_ATOM_SIZE_LENGTH, BAR_FLY_MP4_ATOM_NAME_LENGTH) = NoBytes
       \/ FRead(file, BAR_FLY_MP4_ATOM_SIZE_LENGTH, BAR_FLY_MP4_ATOM_NAME_LENGTH) # n_ftyp
    THEN BarFlyMp4TagClose([file_path |-> file_path, atoms |-> <<>>, mp4_file |-> file])
    ELSE TagOpenParsed(file_path, file, _BarFlyMp4FileParseAtom(file, size))

\* BarFlyMp4TagOpen: the tag, or NoTag; every error exit goes through
\* BarFlyMp4TagClose.
BarFlyMp4TagOpen(f, file_path, fault) ==
    IF fault = "calloc" THEN NoTag
    ELSE IF fault # "none" \/ FOpenRb(f, file_path) = NoBytes
         THEN BarFlyMp4TagClose([file_path |-> file_path, atoms |-> <<>>,
                                 mp4_file |-> NoBytes])
    ELSE TagOpenFile(file_path, FOpenRb(f, file_path),
                     _BarFlyMp4FileParseAtomSize(FOpenRb(f, file_path), 0))

\* What two writes in a row have written, NoBytes when either failed.
RenderJoin(a, b) == IF a = NoBytes THEN NoBytes ELSE IF b = NoBytes THEN NoBytes ELSE a \o b

\* _BarFlyMp4AtomRender: the bytes written for the atom, NoBytes when a read of
\* the source file fails: the size, the name, the data (read from the source
\* at offset + 8 when it was never loaded), then each child.
RECURSIVE _BarFlyMp4AtomRender(_, _)
RECURSIVE RenderChildren(_, _, _)

RenderChildren(children, in_file, i) ==
    IF i > Len(children) THEN <<>>
    ELSE RenderJoin(_BarFlyMp4AtomRender(children[i], in_file),
                    RenderChildren(children, in_file, i + 1))

\* The data _BarFlyMp4AtomRender writes for the atom, NoBytes when the read fails.
RenderData(atom, in_file) ==
    IF atom.data_size = 0 THEN <<>>
    ELSE IF atom.data = NoBytes
         THEN FRead(in_file, atom.offset + BAR_FLY_MP4_ATOM_MIN_LENGTH, atom.data_size)
    ELSE atom.data

_BarFlyMp4AtomRender(atom, in_file) ==
    RenderJoin(RenderJoin(_BarFlyMp4LongRender(atom.size) \o atom.name,
                          RenderData(atom, in_file)),
               RenderChildren(atom.children, in_file, 1))

\* The faults of BarFlyMp4TagWrite: fopen of the temporary file, a seek, a
\* read of the source, a write to the temporary file, the flush of its
\* fclose, the rename.
TagWriteFaults == {"none", "fopen_tmp", "fseek", "fread", "fwrite", "fclose", "rename"}

\* The bytes of the source from position pos to its end (nothing when pos is
\* at or past the end).
FReadToEof(file, pos) == IF pos >= Len(file) THEN <<>> ELSE SubSeq(file, pos + 1, Len(file))

\* The error exit of BarFlyMp4TagWrite: the temporary file is closed, and it
\* is not unlinked.
TagWriteError(f, t, tg, trace) ==
    [fs |-> f, tmp |-> t, tag |-> tg, ret |-> -1, trace |-> trace]

\* The tail of BarFlyMp4TagWrite: both files are closed, then the temporary
\* file is renamed onto the path of the tag, r what rename did.
TagWriteRenamed(f, t, tg, trace, r) ==
    IF r.err # ""
    THEN TagWriteError(f, t, [tg EXCEPT !.mp4_file = NoBytes],
                       trace \o <<Ev("rename", tg.file_path, r.err)>>)
    ELSE [fs |-> r.fs, tmp |-> NoTmp, tag |-> [tg EXCEPT !.mp4_file = NoBytes], ret |-> 0,
          trace |-> trace \o <<Ev("rename", tg.file_path, "")>>]

\* The end of BarFlyMp4TagWrite: fclose(tmp_file), its return value not
\* looked at, fclose(tag->mp4_file), rename.  The files here are smaller than
\* a stdio buffer: when the flush of fclose fails, nothing of what fwrite took
\* has reached the temporary file.
TagWriteClose(f, t, tg, fault, trace) ==
    IF fault = "fclose"
    THEN TagWriteRenamed(f, [t EXCEPT !.data = <<>>], tg,
                         trace \o <<Ev("fclose", "tmp", "ENOSPC")>>,
                         SysRenameOnto(f, [t EXCEPT !.data = <<>>], tg.file_path))
    ELSE TagWriteRenamed(f, t, tg, trace,
                         IF fault = "rename" THEN [fs |-> f, err |-> "EXDEV"]
                         ELSE SysRenameOnto(f, t, tg.file_path))

\* BarFlyMp4TagWrite once the temporary file t is open and the moov atom is
\* found: the source up to moov is copied, moov is rendered, the source from
\* the end of the original moov (its size read back from the file) is copied.
TagWriteCopy(f, t, tg, atom, fault, trace) ==
    IF fault = "fread" \/ FRead(tg.mp4_file, 0, atom.offset) = NoBytes
    THEN TagWriteError(f, t, tg, trace \o <<Ev("fread", tg.file_path, "EIO")>>)
    ELSE IF fault = "fwrite" \/ _BarFlyMp4AtomRender(atom, tg.mp4_file) = NoBytes
    THEN TagWriteError(f, [t EXCEPT !.data = FRead(tg.mp4_file, 0, atom.offset)], tg,
                       trace \o <<Ev("render", tg.file_path, "EIO")>>)
    ELSE IF _BarFlyMp4FileParseAtomSize(tg.mp4_file, atom.offset) = -1
    THEN TagWriteError(f, t, tg, trace \o <<Ev("fread", tg.file_path, "EIO")>>)
    ELSE TagWriteClose(
            f,
            [t EXCEPT !.data =
                FRead(tg.mp4_file, 0, atom.offset)
                \o _BarFlyMp4AtomRender(atom, tg.mp4_file)
                \o FReadToEof(tg.mp4_file, atom.offset + _BarFlyMp4FileParseAtomSize(tg.mp4_file, atom.offset))],
            tg, fault, trace)

\* BarFlyMp4TagWrite: [fs, tmp, tag, ret, trace].
BarFlyMp4TagWrite(f, t, tg, fault) ==
    IF fault = "fopen_tmp"
    THEN TagWriteError(f, t, tg, <<Ev("fopen_tmp", "tmp", "EACCES")>>)
    ELSE IF fault = "fseek" \/ _BarFlyMp4TagFindAtom(tg, <<n_moov>>) = NoBytes
    THEN TagWriteError([f EXCEPT !.next = @ + 1],
                       [exists |-> TRUE, ino |-> f.next, data |-> <<>>], tg,
                       <<Ev("fopen_tmp", "tmp", ""), Ev("fseek", tg.file_path, "EIO")>>)
    ELSE TagWriteCopy([f EXCEPT !.next = @ + 1],
                      [exists |-> TRUE, ino |-> f.next, data |-> <<>>], tg,
                      tg.atoms[_BarFlyMp4TagFindAtom(tg, <<n_moov>>)[1]], fault,
                      <<Ev("fopen_tmp", "tmp", "")>>)

---------------------------------------------------------------------------
(* The tag writers on their own: BarFlyMp4TagOpen, the BarFlyMp4TagAdd*     *)
(* functions, BarFlyMp4TagWrite and BarFlyMp4TagClose on one MP4 file, and  *)
(* BarFlyID3WriteFile on the same file.                                     *)

\* The adds one tag may take.
MaxAdds == 2

\* An atom as it lies in a file: the size, the name, the payload.
Box(name, payload) ==
    _BarFlyMp4LongRender(BAR_FLY_MP4_ATOM_MIN_LENGTH + Len(payload)) \o name \o payload

RECURSIVE OffsetEntries(_)
OffsetEntries(es) ==
    IF es = <<>> THEN <<>> ELSE _BarFlyMp4LongRender(Head(es)) \o OffsetEntries(Tail(es))

\* A chunk offset table with the entries es.
StcoBox(es) == Box(n_stco, Zeros(4) \o _BarFlyMp4LongRender(Len(es)) \o OffsetEntries(es))

\* A track around the sample table boxes.
TrakBox(boxes) ==
    Box(Nm("t", "r", "a", "k"),
        Box(Nm("m", "d", "i", "a"),
            Box(Nm("m", "i", "n", "f"), Box(Nm("s", "t", "b", "l"), boxes))))

MdatBox == Box(Nm("m", "d", "a", "t"), <<1, 2, 3, 4, 5>>)

\* ftyp of 32 bytes, moov of 200 bytes with the chunk offsets 500 and 900,
\* then the media data.
SrcPlain ==
    Box(n_ftyp, Zeros(24))
    \o Box(n_moov, Box(Nm("m", "v", "h", "d"), Zeros(128)) \o TrakBox(StcoBox(<<500, 900>>)))
    \o MdatBox

\* Two tracks, each with its chunk offset table.
SrcTwoTraks ==
    Box(n_ftyp, <<>>)
    \o Box(n_moov, TrakBox(StcoBox(<<140>>)) \o TrakBox(StcoBox(<<141, 142>>)))
    \o MdatBox

\* Atoms with data and children (stsd, mp4a), moov the last atom of the file.
SrcMixed ==
    Box(n_ftyp, Zeros(4))
    \o Box(n_moov,
           Box(Nm("m", "v", "h", "d"), Zeros(4))
           \o TrakBox(Box(n_stsd,
                          Zeros(8) \o Box(n_mp4a, Zeros(28) \o Box(Nm("e", "s", "d", "s"), <<3>>)))
                      \o StcoBox(<<100>>)))

\* A file that is tagged already: moov holds udta.
SrcTagged ==
    Box(n_ftyp, Zeros(4))
    \o Box(n_moov, TrakBox(StcoBox(<<90>>)) \o Box(n_udta, Box(n_meta, Zeros(4))))
    \o MdatBox

\* The first atom is not ftyp.
SrcNoFtyp == Box(Nm("f", "r", "e", "e"), <<>>) \o Box(n_moov, TrakBox(StcoBox(<<80>>)))

\* The second atom is the media data, moov the third.
SrcMdatSecond == Box(n_ftyp, <<>>) \o MdatBox \o Box(n_moov, TrakBox(StcoBox(<<21>>)))

\* The second atom has a known name that is not moov.
SrcTrakSecond == Box(n_ftyp, <<>>) \o TrakBox(StcoBox(<<70>>)) \o Box(n_moov, <<>>)

\* The file ends inside the chunk offset table.
SrcTruncated ==
    SubSeq(Box(n_ftyp, <<>>) \o Box(n_moov, TrakBox(StcoBox(<<60, 61>>))), 1, 60)

Mp4Sources ==
    { SrcPlain, SrcTwoTraks, SrcMixed, SrcTagged, SrcNoFtyp, SrcMdatSecond,
      SrcTrakSecond, SrcTruncated, <<0, 0>> }

\* The metadata the adds are called with: kind and value.
Mp4Values ==
    { <<"artist", <<"A">> >>, <<"album", <<"B", "c">> >>, <<"title", <<>> >>,
      <<"year", PageYear>>, <<"track", PageTrack>>, <<"disk", PageDisc>>,
      <<"cover", <<255, 216, 255>> >> }

\* The path of the file the writers are given.
Mp4Path == <<"/", "s">>

\* The number of metadata atoms in moov.udta.meta.ilst.
ItemCount(tg) ==
    IF _BarFlyMp4TagFindAtom(tg, IlstPath) = NoBytes THEN 0
    ELSE Len(AtomAt(tg.atoms[1], Tail(_BarFlyMp4TagFindAtom(tg, IlstPath))).children)

Mp4TagOpenEffect(tg, fault) ==
    /\ mp4tag' = tg
    /\ pc' = IF tg = NoTag THEN "refused" ELSE "tagopen"
    /\ call' = [op |-> "BarFlyMp4TagOpen", ret |-> IF tg = NoTag THEN -1 ELSE 0,
                trace |-> <<>>, fault |-> fault]

Mp4TagOpen ==
    /\ pc = "tagger"
    /\ \E fault \in TagOpenFaults :
          Mp4TagOpenEffect(BarFlyMp4TagOpen(fs, Mp4Path, fault), fault)
    /\ UNCHANGED <<settings, song, fly, stream, fs, tmp, nwrites, written, freed,
                   procs, cpath>>

\* What an access outside the stco buffer can do: the process dies, or it
\* goes on with memory next to the buffer read and written.
OverrunOutcomes == {"crash", "goes_on"}

Mp4TagAddEffect(r, kind, fault) ==
    /\ mp4tag' = r.tag
    /\ \E o \in (IF r.overrun THEN OverrunOutcomes ELSE {"goes_on"}) :
          pc' = IF o = "crash" THEN "crashed"
                ELSE IF r.status = 0 THEN "tagopen" ELSE "addfailed"
    /\ call' = [op |-> "BarFlyMp4TagAdd", ret |-> r.status, trace |-> <<kind>>,
                fault |-> fault, overrun |-> r.overrun]

Mp4TagAdd ==
    /\ pc = "tagopen"
    /\ ItemCount(mp4tag) < MaxAdds
    /\ \E v \in Mp4Values, fault \in AddFaults :
          Mp4TagAddEffect(BarFlyMp4TagAdd(mp4tag, v[1], v[2], fault), v[1], fault)
    /\ UNCHANGED <<settings, song, fly, stream, fs, tmp, nwrites, written, freed,
                   procs, cpath>>

Mp4TagWriteEffect(w) ==
    /\ mp4tag' = w.tag
    /\ fs' = w.fs
    /\ tmp' = w.tmp
    /\ pc' = "tagwritten"
    /\ call' = [op |-> "BarFlyMp4TagWrite", ret |-> w.ret, trace |-> w.trace]

Mp4TagWrite ==
    /\ pc = "tagopen"
    /\ \E fault \in TagWriteFaults :
          Mp4TagWriteEffect(BarFlyMp4TagWrite(fs, tmp, mp4tag, fault))
    /\ UNCHANGED <<settings, song, fly, stream, nwrites, written, freed, procs, cpath>>

Mp4TagClose ==
    /\ pc \in {"tagopen", "addfailed", "tagwritten"}
    /\ mp4tag' = BarFlyMp4TagClose(mp4tag)
    /\ pc' = "tagclosed"
    /\ call' = [op |-> "BarFlyMp4TagClose", ret |-> 0, trace |-> <<>>]
    /\ UNCHANGED <<settings, song, fly, stream, fs, tmp, nwrites, written, freed,
                   procs, cpath>>

\* The faults of BarFlyID3WriteFile.
ID3WriteFaults == {"none", "tag_malloc", "fopen_audio", "fopen_tmp", "fwrite_tmp",
                   "fread", "rename"}

ID3WriteEffect(w) ==
    /\ fs' = w.fs
    /\ tmp' = w.tmp
    /\ pc' = "id3written"
    /\ call' = [op |-> "BarFlyID3WriteFile", ret |-> w.ret, trace |-> w.trace]

\* BarFlyID3WriteFile on the file; tmp_file_path holds indeterminate bytes
\* until tmpnam() fills it: they name nothing, a temporary file, or the file.
ID3WriteFile ==
    /\ pc = "tagger"
    /\ \E fault \in ID3WriteFaults, garbage \in UninitializedPaths :
          ID3WriteEffect(BarFlyID3WriteFile(fs, tmp, Mp4Path,
                                            Bytes(<<"I", "D", "3">>) \o <<4, 0, 0>>,
                                            fault, garbage))
    /\ UNCHANGED <<mp4tag, settings, song, fly, stream, nwrites, written, freed, procs,
                   cpath>>

InitTag ==
    /\ settings \in [audioFileDir : { <<"/", "r">> }, audioFileName : { tok_title },
                     useSpaces : {FALSE}, embedCover : {FALSE}]
    /\ song \in [artist : { <<"A">> }, album : { <<"B", "c">> }, title : { <<>> },
                 audioFormat : {"AACPLUS"}]
    /\ fly = CallerFly
    /\ stream = NoStream
    /\ \E src \in Mp4Sources :
          fs = [dirs |-> {<<>>},
                files |-> Put(<<>>, <<Drop(Mp4Path, 1)>>, [ino |-> 1, data |-> src]),
                cwd |-> <<>>, next |-> 2]
    /\ tmp = NoTmp
    /\ call = NoCall
    /\ pc = "tagger"
    /\ nwrites = 0
    /\ written = NoneWritten
    /\ freed = {}
    /\ procs = NoProcs
    /\ cpath = <<>>
    /\ mp4tag = NoTag

NextTag ==
    \/ Mp4TagOpen
    \/ Mp4TagAdd
    \/ Mp4TagWrite
    \/ Mp4TagClose
    \/ ID3WriteFile

SpecTag == InitTag /\ [][NextTag]_vars

---------------------------------------------------------------------------
(* The offset update on the chunk offset tables the parser accepts.         *)

\* A file whose stco atom has the given payload.
SrcStco(payload) ==
    Box(n_ftyp, <<>>) \o Box(n_moov, TrakBox(Box(n_stco, payload))) \o MdatBox

\* Payloads of stco: none, the version and flags alone, a count of 0, one
\* and two entries with their count, a count of 2 over one entry, a count of
\* 1 over no entry.
StcoPayloads ==
    { <<>>,
      Zeros(4),
      Zeros(4) \o _BarFlyMp4LongRender(0),
      Zeros(4) \o _BarFlyMp4LongRender(1) \o OffsetEntries(<<100>>),
      Zeros(4) \o _BarFlyMp4LongRender(2) \o OffsetEntries(<<100, 200>>),
      Zeros(4) \o _BarFlyMp4LongRender(2) \o OffsetEntries(<<100>>),
      Zeros(4) \o _BarFlyMp4LongRender(1) }

InitStco ==
    /\ settings \in [audioFileDir : { <<"/", "r">> }, audioFileName : { tok_title },
                     useSpaces : {FALSE}, embedCover : {FALSE}]
    /\ song \in [artist : { <<"A">> }, album : { <<"B", "c">> }, title : { <<>> },
                 audioFormat : {"AACPLUS"}]
    /\ fly = CallerFly
    /\ stream = NoStream
    /\ \E payload \in StcoPayloads :
          fs = [dirs |-> {<<>>},
                files |-> Put(<<>>, <<Drop(Mp4Path, 1)>>,
                              [ino |-> 1, data |-> SrcStco(payload)]),
                cwd |-> <<>>, next |-> 2]
    /\ tmp = NoTmp
    /\ call = NoCall
    /\ pc = "tagger"
    /\ nwrites = 0
    /\ written = NoneWritten
    /\ freed = {}
    /\ procs = NoProcs
    /\ cpath = <<>>
    /\ mp4tag = NoTag

NextStco ==
    \/ Mp4TagOpen
    \/ Mp4TagAdd
    \/ Mp4TagClose

SpecStco == InitStco /\ [][NextStco]_vars

---------------------------------------------------------------------------
(* _BarFlyMp4FileParseAtom step by step: each call, each turn of its child  *)
(* loop and each return is a step, the calls in progress are a stack.  The  *)
(* sizes are size_t: they are kept as the signed number with the same low   *)
(* bits, so that a size field of 2^31 or more is a negative number here,    *)
(* and they are compared as unsigned numbers.                               *)

\* The calls of _BarFlyMp4FileParseAtom the stack of the process has room for.
MaxDepth == 8

\* a < b for two size_t.
SizeLess(a, b) == IF (a < 0) = (b < 0) THEN a < b ELSE b < 0

\* The size_t that _BarFlyMp4FileParseAtomSize stores: [ok, size].
ParseAtomSizeT(file, pos) ==
    IF FRead(file, pos, BAR_FLY_MP4_ATOM_SIZE_LENGTH) = NoBytes
    THEN [ok |-> FALSE, size |-> 0]
    ELSE [ok |-> ~SizeLess(_BarFlyMp4BufToLong(FRead(file, pos,
                                                     BAR_FLY_MP4_ATOM_SIZE_LENGTH)),
                           BAR_FLY_MP4_ATOM_MIN_LENGTH),
          size |-> _BarFlyMp4BufToLong(FRead(file, pos, BAR_FLY_MP4_ATOM_SIZE_LENGTH))]

\* The parser on a file: the position of the file, the calls in progress
\* (the atom of each, its size_l and its remaining), what the last call
\* returned.
ParserAt(file, pos) ==
    [mp4_file |-> file, pos |-> pos, stack |-> <<>>,
     ret |-> [ok |-> FALSE, atom |-> NoAtom]]

\* The error exit of a call that started at start_pos with the calls stack
\* above it: NULL is returned and the file is back at start_pos.
ParseAtomError(ps, stack, start_pos) ==
    [ps EXCEPT !.pos = start_pos, !.stack = stack,
               !.ret = [ok |-> FALSE, atom |-> NoAtom]]

\* The start of a call once the size and the name are read: the atom is
\* made, fseek(data_size, SEEK_CUR) moves over the data (backwards when
\* data_size is negative as a long, and fails before the start of the file),
\* remaining = size_l - atom->size.
ParseAtomEntered(ps, size_l, name) ==
    IF name = NoBytes THEN ParseAtomError(ps, ps.stack, ps.pos)
    ELSE IF AtomDataSize(name, size_l) = -1 THEN ParseAtomError(ps, ps.stack, ps.pos)
    ELSE IF ps.pos + BAR_FLY_MP4_ATOM_MIN_LENGTH + AtomDataSize(name, size_l) < 0
         THEN ParseAtomError(ps, ps.stack, ps.pos)
    ELSE [ps EXCEPT
            !.pos = @ + BAR_FLY_MP4_ATOM_MIN_LENGTH + AtomDataSize(name, size_l),
            !.stack = Append(@,
               [atom |-> [_BarFlyMp4AtomOpen(name, ps.pos) EXCEPT
                             !.data_size = AtomDataSize(name, size_l),
                             !.size = BAR_FLY_MP4_ATOM_MIN_LENGTH
                                         + AtomDataSize(name, size_l)],
                remaining |-> size_l - (BAR_FLY_MP4_ATOM_MIN_LENGTH
                                           + AtomDataSize(name, size_l))])]

\* A call of _BarFlyMp4FileParseAtom up to its child loop.
ParseAtomCall ==
    /\ pc = "call"
    /\ mp4tag' =
          IF ~ParseAtomSizeT(mp4tag.mp4_file, mp4tag.pos).ok
          THEN ParseAtomError(mp4tag, mp4tag.stack, mp4tag.pos)
          ELSE ParseAtomEntered(mp4tag,
                  ParseAtomSizeT(mp4tag.mp4_file, mp4tag.pos).size,
                  FRead(mp4tag.mp4_file, mp4tag.pos + BAR_FLY_MP4_ATOM_SIZE_LENGTH,
                        BAR_FLY_MP4_ATOM_NAME_LENGTH))
    /\ pc' = IF Len(mp4tag'.stack) > Len(mp4tag.stack) THEN "loop" ELSE "return"
    /\ call' = [op |-> "_BarFlyMp4FileParseAtom", ret |-> 0, trace |-> <<>>]
    /\ UNCHANGED <<settings, song, fly, stream, fs, tmp, nwrites, written, freed,
                   procs, cpath>>

\* while (remaining > 0): the loop ends and the atom is returned, or the
\* next child is parsed by a call of its own; the stack of the process has
\* an end.
ParseAtomLoop ==
    /\ pc = "loop"
    /\ IF mp4tag.stack[Len(mp4tag.stack)].remaining = 0
       THEN /\ mp4tag' = [mp4tag EXCEPT
                            !.stack = SubSeq(@, 1, Len(@) - 1),
                            !.ret = [ok |-> TRUE,
                                     atom |-> mp4tag.stack[Len(mp4tag.stack)].atom]]
            /\ pc' = "return"
       ELSE /\ mp4tag' = mp4tag
            /\ pc' = IF Len(mp4tag.stack) >= MaxDepth THEN "stack_overflow" ELSE "call"
    /\ call' = [op |-> "_BarFlyMp4FileParseAtom", ret |-> 0, trace |-> <<>>]
    /\ UNCHANGED <<settings, song, fly, stream, fs, tmp, nwrites, written, freed,
                   procs, cpath>>

\* The child is back in the loop of its parent, the last call of stack:
\* NULL or a child larger than remaining is the error exit of the parent,
\* else the child is taken off remaining and added.
ParseAtomChild(ps, stack, parent, child) ==
    IF ~child.ok \/ SizeLess(parent.remaining, child.atom.size)
    THEN ParseAtomError(ps, stack, parent.atom.offset)
    ELSE [ps EXCEPT !.stack = Append(stack,
                        [atom |-> _BarFlyMp4AtomAddChild(parent.atom, child.atom),
                         remaining |-> parent.remaining - child.atom.size])]

ParseAtomReturn ==
    /\ pc = "return"
    /\ mp4tag.stack # <<>>
    /\ mp4tag' = ParseAtomChild(mp4tag, SubSeq(mp4tag.stack, 1, Len(mp4tag.stack) - 1),
                                mp4tag.stack[Len(mp4tag.stack)], mp4tag.ret)
    /\ pc' = IF Len(mp4tag'.stack) = Len(mp4tag.stack) THEN "loop" ELSE "return"
    /\ call' = [op |-> "_BarFlyMp4FileParseAtom", ret |-> 0, trace |-> <<>>]
    /\ UNCHANGED <<settings, song, fly, stream, fs, tmp, nwrites, written, freed,
                   procs, cpath>>

\* An atom as it lies in a file, its size field whatever the payload is.
RawBox(size_field, name, payload) ==
    _BarFlyMp4LongRender(size_field) \o name \o payload

\* The position the parser starts at: behind an empty ftyp.
ParseStart == Len(Box(n_ftyp, <<>>))

\* What follows ftyp in the files to parse: well-formed trees; stsd and mp4a
\* declared smaller than their fixed data; a child larger than its parent; a
\* file that ends early; an unknown name; sizes of 2^31 and more on moov, on
\* a child of moov, and on a child of an stsd declared smaller than its data.
ParseSources ==
    { Box(n_moov, TrakBox(StcoBox(<<5>>))),
      Box(n_moov, Box(n_stsd, Zeros(8) \o Box(n_mp4a, Zeros(28) \o Box(n_stco, <<3>>)))
                  \o StcoBox(<<7>>)),
      Box(n_moov, RawBox(8, n_stsd, Zeros(8)) \o StcoBox(<<7>>)),
      Box(n_moov, RawBox(15, n_stsd, Zeros(8)) \o StcoBox(<<7>>)),
      Box(n_moov, Box(n_stsd, Zeros(8) \o RawBox(12, n_mp4a, Zeros(28)))),
      Box(n_moov, RawBox(40, n_stco, Zeros(8))),
      SubSeq(Box(n_moov, TrakBox(StcoBox(<<5>>))), 1, 20),
      Box(n_moov, Box(Nm("f", "r", "e", "e"), <<>>)),
      RawBox(-1, n_moov, StcoBox(<<5>>)),
      Box(n_moov, RawBox(-16, n_stco, Zeros(8))),
      Box(n_moov, RawBox(-256, n_stco, Zeros(8))),
      Box(n_moov, RawBox(15, n_stsd, Zeros(8)) \o RawBox(-16, n_stco, Zeros(8))),
      Box(n_moov, RawBox(8, n_mp4a, Zeros(28)) \o RawBox(-36, n_stco, Zeros(8))),
      <<0, 0>> }

InitParse ==
    /\ settings \in [audioFileDir : { <<"/", "r">> }, audioFileName : { tok_title },
                     useSpaces : {FALSE}, embedCover : {FALSE}]
    /\ song \in [artist : { <<"A">> }, album : { <<"B", "c">> }, title : { <<>> },
                 audioFormat : {"AACPLUS"}]
    /\ fly = CallerFly
    /\ stream = NoStream
    /\ fs = [dirs |-> {<<>>}, files |-> <<>>, cwd |-> <<>>, next |-> 1]
    /\ tmp = NoTmp
    /\ call = NoCall
    /\ pc = "call"
    /\ nwrites = 0
    /\ written = NoneWritten
    /\ freed = {}
    /\ procs = NoProcs
    /\ cpath = <<>>
    /\ \E src \in ParseSources :
          mp4tag = ParserAt(Box(n_ftyp, <<>>) \o src, ParseStart)

NextParse ==
    \/ ParseAtomCall
    \/ ParseAtomLoop
    \/ ParseAtomReturn

\* Every step the parser can take is taken.
SpecParse == InitParse /\ [][NextParse]_vars /\ WF_vars(NextParse)

---------------------------------------------------------------------------
(* The numbers of the tag as text: the snprintf of _BarFlyTagID3Write and   *)
(* of BarFlyMp4TagAddYear.                                                  *)

\* BUFFER_SIZE of _BarFlyTagID3Write, and the size of year_str in
\* BarFlyMp4TagAddYear.
BUFFER_SIZE == 5

\* snprintf(buffer, size, "%hu", n): at most size - 1 characters are stored.
Snprintf_hu(size, n) ==
    IF Len(Fmt_hu(n)) < size THEN Fmt_hu(n) ELSE SubSeq(Fmt_hu(n), 1, size - 1)

\* The text _BarFlyTagID3Write hands to BarFlyID3AddFrame for a year, a track
\* or a disc.
ID3NumberText(n) == Snprintf_hu(BUFFER_SIZE, n)

\* The values of year, track and disc tagged: the small ones, and the ones
\* around each power of ten up to the largest short unsigned.
TextValues == (1..100) \cup {101, 999, 1000, 1998, 9999, 10000, 12345, 32768, 65535}

\* _BarFlyTagID3Write adding the frame of one number of the recorder.
ID3AddNumber ==
    /\ pc = "text"
    /\ \E frame \in {"TYER", "TRCK", "TPOS"} :
          call' = [op |-> frame, ret |-> 0,
                   trace |-> ID3NumberText(CASE frame = "TYER" -> fly.year
                                             [] frame = "TRCK" -> fly.track
                                             [] frame = "TPOS" -> fly.disc)]
    /\ UNCHANGED <<mp4tag, settings, song, fly, stream, fs, tmp, pc, nwrites, written,
                   freed, procs, cpath>>

\* BarFlyMp4TagAddYear handing the year to _BarFlyMp4TagAddMetaAtom.
Mp4AddYearText ==
    /\ pc = "text"
    /\ call' = [op |-> "day", ret |-> 0, trace |-> MetaData("year", fly.year)]
    /\ UNCHANGED <<mp4tag, settings, song, fly, stream, fs, tmp, pc, nwrites, written,
                   freed, procs, cpath>>

InitText ==
    /\ settings \in [audioFileDir : { <<"/", "r">> }, audioFileName : { tok_title },
                     useSpaces : {FALSE}, embedCover : {FALSE}]
    /\ song \in [artist : { <<"A">> }, album : { <<"B", "c">> }, title : { <<>> },
                 audioFormat : {"MP3", "AACPLUS"}]
    /\ \E y \in TextValues, n \in {1, 12345} :
          fly = [CallerFly EXCEPT !.year = y, !.track = n, !.disc = n,
                                  !.audio_format = song.audioFormat]
    /\ stream = NoStream
    /\ fs = [dirs |-> {<<>>}, files |-> <<>>, cwd |-> <<>>, next |-> 1]
    /\ tmp = NoTmp
    /\ call = NoCall
    /\ pc = "text"
    /\ nwrites = 0
    /\ written = NoneWritten
    /\ freed = {}
    /\ procs = NoProcs
    /\ cpath = <<>>
    /\ mp4tag = NoTag

NextText ==
    \/ ID3AddNumber
    \/ Mp4AddYearText

SpecText == InitText /\ [][NextText]_vars

---------------------------------------------------------------------------
(* The properties of the recorder. *)

\* The system calls of the last call of the recorder.
CallEvents == { call.trace[i] : i \in DOMAIN call.trace }

\* How the creation of the output file ended in the last BarFlyOpen.
OpenOutcome ==
    IF \E ev \in CallEvents : ev.sys = "fdopen" /\ ev.err = "" THEN "created"
    ELSE IF \E ev \in CallEvents : ev.sys = "open" /\ ev.err = "EEXIST" THEN "exists"
    ELSE "failed"

\* The bytes of the file at the output path, NULL when there is none.
OutputFile == IF fly.audio_file_path = NULL THEN NULL
              ELSE SysRead(fs, fly.audio_file_path)

\* C1: after BarFlyOpen the recorder is RECORDING, not completed and holds an
\* open handle when the exclusive create succeeded; NOT_RECORDING_EXIST,
\* completed and without handle when the file existed; NOT_RECORDING, not
\* completed and without handle after any other failure.
OpenStateMapping ==
    (pc = "song" /\ call.op = "BarFlyOpen") =>
        CASE OpenOutcome = "created" ->
                /\ fly.status = "RECORDING"
                /\ ~fly.completed
                /\ fly.audio_file # NULL
                /\ stream.open
          [] OpenOutcome = "exists" ->
                /\ fly.status = "NOT_RECORDING_EXIST"
                /\ fly.completed
                /\ fly.audio_file = NULL
                /\ ~stream.open
          [] OTHER ->
                /\ fly.status = "NOT_RECORDING"
                /\ ~fly.completed
                /\ fly.audio_file = NULL
                /\ ~stream.open

\* C1: a BarFlyOpen that found the file of an earlier recording.
OpenStateMappingWitness ==
    /\ pc = "song"
    /\ call.op = "BarFlyOpen"
    /\ OpenOutcome = "exists"
    /\ fly.status = "NOT_RECORDING_EXIST"
    /\ OutputFile = <<"old">>

\* C2: after BarFlyWrite calls that all returned 0, a BarFlyTag that returned
\* 0 and BarFlyClose, the MP3 file at the output path is the rendered ID3 tag
\* followed by all the blocks written, in order.
TaggedFileHoldsAllAudio ==
    (/\ pc = "closed"
     /\ fly.audio_format = "MP3"
     /\ fly.audio_file # NULL
     /\ written.tagged = "ok"
     /\ ~written.failed)
    => OutputFile =
          ID3Render(ID3Frames(fly, IF settings.embedCover /\ fly.cover_art_url # NULL
                                   THEN "cover" ELSE NULL))
            \o written.data

\* C3: when the tag writer of BarFlyTag has opened the audio file, the write
\* handle of the recorder is closed, and its fclose came before that open.
TagClosesHandleFirst ==
    (call.op = "BarFlyTag" /\ \E ev \in CallEvents : ev.sys = "fopen_rb") =>
        /\ ~stream.open
        /\ \E i, j \in DOMAIN call.trace :
              i < j /\ call.trace[i].sys = "fclose" /\ call.trace[j].sys = "fopen_rb"

\* C4: the recorder holds an open write handle exactly when its status is
\* RECORDING.
HandleIffRecording ==
    pc \in {"song", "closed", "closed2"} =>
        /\ stream.open <=> fly.status = "RECORDING"
        /\ fly.status = "RECORDING" => fly.audio_file # NULL

\* C5: BarFlyTag on a recorder that is not completed leaves it completed
\* whatever the tag writer returns, and from status TAGGING on no step makes
\* the status DELETING and no BarFlyClose unlinks or removes anything.
TaggedNeverDeleted ==
    [][ /\ (call'.op = "BarFlyTag" /\ ~fly.completed /\ pc' # "crashed")
            => (fly'.completed /\ fly'.status = "TAGGING")
        /\ fly.status = "TAGGING"
            => /\ fly'.status # "DELETING"
               /\ call'.op = "BarFlyClose"
                    => \A i \in DOMAIN call'.trace :
                          call'.trace[i].sys \notin {"unlink", "rmdir"}
      ]_vars

\* C5: a recorder closed after its tag writer failed: the file is kept.
TaggedNeverDeletedWitness ==
    /\ pc = "closed"
    /\ call.op = "BarFlyClose"
    /\ written.tagged = "failed"
    /\ fly.status = "TAGGING"
    /\ fly.audio_file # NULL
    /\ OutputFile # NULL

\* C6: while completed is set, BarFlyWrite returns 0 and writes nothing,
\* BarFlyTag tags nothing, BarFlyClose unlinks and removes nothing, and the
\* files and directories stay exactly as they were.
CompletedLeavesFilesAlone ==
    [][ (fly.completed /\ pc' # "crashed") =>
            /\ fs'.dirs = fs.dirs
            /\ fs'.files = fs.files
            /\ call'.op = "BarFlyWrite" => (call'.ret = 0 /\ call'.trace = <<>>)
            /\ call'.op = "BarFlyTag" => call'.trace = <<>>
            /\ call'.op = "BarFlyClose"
                 => \A i \in DOMAIN call'.trace :
                       call'.trace[i].sys \notin {"unlink", "rmdir"}
      ]_vars

\* No system call of the last call failed for want of memory or permission.
NoInjectedFault == \A ev \in CallEvents : ev.err \notin {"EACCES", "ENOMEM", "EIO"}

\* Directory d lies below the recording root.
BelowRoot(d) == Len(d) > Len(Root) /\ SubSeq(d, 1, Len(Root)) = Root

\* C7: BarFlyClose on a recording that is not completed returns 0, and then
\* the file is gone, the recording root is there, and no directory below the
\* root is left empty.
AbortCloseRemovesFileAndEmptyDirs ==
    (/\ pc = "closed"
     /\ fly.status = "DELETING"
     /\ fly.audio_file # NULL
     /\ NoInjectedFault)
    => /\ call.ret = 0
       /\ OutputFile = NULL
       /\ Root \in fs.dirs
       /\ \A d \in fs.dirs : BelowRoot(d) => HasChildren(fs, d)

\* C8: every directory a step removes lies below the recording root: never
\* the root, an ancestor of it or a directory outside it.
DeleteStaysBelowRoot ==
    [][ \A d \in fs.dirs \ fs'.dirs : BelowRoot(d) ]_vars

\* C9: a second BarFlyClose after the one that deleted the partial file and
\* returned 0 closes no handle, frees nothing, attempts no unlink and returns 0.
SecondAbortCloseIsNoOp ==
    [][ (/\ pc = "closed"
         /\ fly.status = "DELETING"
         /\ fly.audio_file # NULL
         /\ call.ret = 0)
        => /\ pc' = "closed2"
           /\ call'.ret = 0
           /\ call'.trace = <<>>
           /\ fs' = fs
           /\ freed' = freed
      ]_vars

\* C10: when both processes have returned from _BarFlyFileOpen and no system
\* call of either failed but for EEXIST and EINTR, one returned 0 with a
\* stream and the other -2 without.
ExactlyOneCreates ==
    (/\ DOMAIN procs = Creators
     /\ \A p \in Creators : procs[p].pc = "done" /\ ~procs[p].fault)
    => \E p \in Creators :
          /\ procs[p].ret = 0
          /\ procs[p].fp # 0
          /\ \A q \in Creators \ {p} : procs[q].ret = -2 /\ procs[q].fp = 0

\* C10: the second process created the file, in a directory, and the first,
\* interrupted once, found it there.
ExactlyOneCreatesWitness ==
    /\ DOMAIN procs = Creators
    /\ \A p \in Creators : procs[p].pc = "done" /\ ~procs[p].fault
    /\ StrchrSlash(cpath, 1) # 0
    /\ procs[2].ret = 0
    /\ procs[1].ret = -2
    /\ procs[1].eintr = 1

---------------------------------------------------------------------------
(* The properties of path rendering. *)

\* The bytes the file names must not hold.
ForbiddenBytes == {"/", c_backslash, "|", ":", ";", "*", c_backtick, c_dquote,
                   "?", "<", ">"}

\* The byte that stands for a kept byte c of a name.
MappedByte(c, useSpaces) ==
    CASE c \in {"/", c_backslash, "|", ":", ";", "*", c_backtick} -> "-"
      [] c = "<" -> "("
      [] c = ">" -> ")"
      [] c = " " /\ ~useSpaces -> "_"
      [] OTHER -> c

IsKeptByte(c) == c \notin {c_dquote, "?"}

\* A name with its dropped bytes left out and every other byte mapped, in order.
MappedName(src, useSpaces) ==
    [i \in 1..Len(SelectSeq(src, IsKeptByte)) |->
        MappedByte(SelectSeq(src, IsKeptByte)[i], useSpaces)]

NamesFitTheirBuffers ==
    (call.op = "_BarFlyFileGetPath") =>
        /\ pc # "crashed"
        /\ pc = "rendered" =>
              \A i \in 1..3 : Len(call.trace[i]) <= BAR_FLY_NAME_LENGTH - 1

\* The template rendered with every '%' that starts no token dropped together
\* with the byte after it.
RECURSIVE RenderDroppingPairs(_, _, _, _, _, _, _)
RenderDroppingPairs(pat, pa, pal, pt, year, track, disc) ==
    IF pat = <<>> THEN <<>>
    ELSE IF Head(pat) # "%"
        THEN <<Head(pat)>> \o RenderDroppingPairs(Tail(pat), pa, pal, pt, year, track, disc)
    ELSE IF StartsWith(pat, tok_artist)
        THEN pa \o RenderDroppingPairs(Drop(pat, 7), pa, pal, pt, year, track, disc)
    ELSE IF StartsWith(pat, tok_album)
        THEN pal \o RenderDroppingPairs(Drop(pat, 6), pa, pal, pt, year, track, disc)
    ELSE IF StartsWith(pat, tok_title)
        THEN pt \o RenderDroppingPairs(Drop(pat, 6), pa, pal, pt, year, track, disc)
    ELSE IF StartsWith(pat, tok_year)
        THEN Fmt_hu(year) \o RenderDroppingPairs(Drop(pat, 5), pa, pal, pt, year, track, disc)
    ELSE IF StartsWith(pat, tok_track)
        THEN Fmt_02hu(track) \o RenderDroppingPairs(Drop(pat, 6), pa, pal, pt, year, track, disc)
    ELSE IF StartsWith(pat, tok_disc)
        THEN Fmt_hu(disc) \o RenderDroppingPairs(Drop(pat, 5), pa, pal, pt, year, track, disc)
    ELSE RenderDroppingPairs(Drop(pat, 2), pa, pal, pt, year, track, disc)

\* C13: the rendered path is the template with its tokens replaced and every
\* other '%' dropped together with the byte that follows it.
StrayPercentDropsNextByte ==
    (pc = "rendered" /\ call.op = "_BarFlyFileGetPath") =>
        call.ret = RenderDroppingPairs(settings.audioFileName, call.trace[1],
                                       call.trace[2], call.trace[3],
                                       call.year, call.track, call.disc)
                      \o Extension(song.audioFormat)

---------------------------------------------------------------------------
(* The properties of the tag writers. *)

RECURSIVE SumOfSizes(_)
SumOfSizes(atoms) == IF atoms = <<>> THEN 0 ELSE Head(atoms).size + SumOfSizes(Tail(atoms))

\* Every atom of the tree below atom, itself included, has
\* size = 8 + length of its payload + sum of its children's sizes.
RECURSIVE SizesAddUp(_)
SizesAddUp(atom) ==
    /\ atom.size = BAR_FLY_MP4_ATOM_MIN_LENGTH + atom.data_size + SumOfSizes(atom.children)
    /\ atom.data # NoBytes => Len(atom.data) = atom.data_size
    /\ \A i \in DOMAIN atom.children : SizesAddUp(atom.children[i])

StcoEntriesAt(file, pos) ==
    [k \in 1.._BarFlyMp4BufToLong(SubSeq(file, pos + 5, pos + 8)) |->
        _BarFlyMp4BufToLong(SubSeq(file, pos + 5 + 4 * k, pos + 8 + 4 * k))]

\* The entries of every chunk offset table among the atoms that lie in the
\* file from position pos up to position end, in file order.
RECURSIVE StcoEntriesIn(_, _, _)
StcoEntriesIn(file, pos, end) ==
    IF pos + BAR_FLY_MP4_ATOM_MIN_LENGTH > end THEN <<>>
    ELSE LET size == _BarFlyMp4BufToLong(SubSeq(file, pos + 1, pos + 4))
             name == SubSeq(file, pos + 5, pos + 8)
         IN (IF name = n_stco THEN StcoEntriesAt(file, pos + BAR_FLY_MP4_ATOM_MIN_LENGTH)
             ELSE IF name \in ContainerNames
                  THEN StcoEntriesIn(file, pos + BAR_FLY_MP4_ATOM_MIN_LENGTH, pos + size)
             ELSE <<>>)
            \o StcoEntriesIn(file, pos + size, end)

\* Where the second atom of a file starts, and the size it states.
SecondAtomOffset(file) == _BarFlyMp4BufToLong(SubSeq(file, 1, 4))
SecondAtomSize(file) ==
    _BarFlyMp4BufToLong(SubSeq(file, SecondAtomOffset(file) + 1, SecondAtomOffset(file) + 4))

\* The chunk offsets of the moov atom of a file.
MoovOffsets(file) ==
    StcoEntriesIn(file, SecondAtomOffset(file),
                  SecondAtomOffset(file) + SecondAtomSize(file))

\* C15: when BarFlyMp4TagWrite returns 0, every chunk offset e of every stco
\* table of the source moov is e + D in the file written, D the size of the
\* written moov less the size of the source moov.
StcoOffsetsShifted ==
    [][ (call'.op = "BarFlyMp4TagWrite" /\ call'.ret = 0)
            => LET src == FOpenRb(fs, Mp4Path)
                   out == FOpenRb(fs', Mp4Path)
                   D == IF Len(out) >= Len(src)
                        THEN SecondAtomSize(out) - SecondAtomSize(src) ELSE 0
               IN /\ Len(out) >= Len(src)
                  /\ Len(MoovOffsets(out)) = Len(MoovOffsets(src))
                  /\ \A k \in DOMAIN MoovOffsets(src) :
                        MoovOffsets(out)[k] = MoovOffsets(src)[k] + D
      ]_vars

\* C16: when BarFlyMp4TagWrite returns 0, the file written is the source up
\* to moov, the moov atom of the tag in its new size, and the source from the
\* end of the original moov to the end of the file.
WriteKeepsBytesAroundMoov ==
    [][ (call'.op = "BarFlyMp4TagWrite" /\ call'.ret = 0)
            => LET src == FOpenRb(fs, Mp4Path)
                   out == FOpenRb(fs', Mp4Path)
                   off == SecondAtomOffset(src)
                   old == SecondAtomSize(src)
                   new == mp4tag.atoms[1].size
               IN /\ Len(out) = Len(src) + (new - old)
                  /\ SubSeq(out, 1, off) = SubSeq(src, 1, off)
                  /\ SubSeq(out, off + 1, off + new)
                        = _BarFlyMp4AtomRender(mp4tag.atoms[1], src)
                  /\ SubSeq(out, off + 5, off + 8) = n_moov
                  /\ SecondAtomSize(out) = new
                  /\ SubSeq(out, off + new + 1, Len(out))
                        = SubSeq(src, off + old + 1, Len(src))
      ]_vars

\* The file a tag of the source src renders to when every write succeeds.
RenderedFile(tg, src) ==
    SubSeq(src, 1, tg.atoms[1].offset) \o _BarFlyMp4AtomRender(tg.atoms[1], src)

\* BarFlyMp4TagAddArtist("A") returns 0 with the artist atom added, on the
\* tag of the untagged file whose moov has 200 bytes and the chunk offsets
\* 500 and 900.
AddsArtistToPlain ==
    /\ call'.op = "BarFlyMp4TagAdd"
    /\ call'.trace = <<"artist">>
    /\ call'.ret = 0
    /\ mp4tag.mp4_file = SrcPlain
    /\ _BarFlyMp4TagFindAtom(mp4tag, UdtaPath) = NoBytes
    /\ ItemCount(mp4tag') = 1
    /\ SecondAtomSize(SrcPlain) = 200
    /\ MoovOffsets(SrcPlain) = <<500, 900>>

KnownNames == ContainerNames \cup PayloadNames \cup {n_stsd, n_mp4a}

\* Has the atom, and every atom below it, a known name?
RECURSIVE AllKnown(_)
AllKnown(atom) ==
    /\ atom.name \in KnownNames
    /\ \A i \in 1..Len(atom.children) : AllKnown(atom.children[i])

\* The name of the atom at the start of the file, and of the atom behind it,
\* read from the bytes; NoBytes when the file is too short.
FirstAtomName(file) == IF Len(file) < 8 THEN NoBytes ELSE SubSeq(file, 5, 8)
SecondAtomName(file) ==
    IF Len(file) < 8 THEN NoBytes
    ELSE IF Len(file) < SecondAtomOffset(file) + 8 THEN NoBytes
    ELSE SubSeq(file, SecondAtomOffset(file) + 5, SecondAtomOffset(file) + 8)

WriterReturns ==
    \/ pc = "tagger" /\ pc' = "id3written" /\ call'.op = "BarFlyID3WriteFile"
    \/ pc = "tagopen" /\ pc' = "tagwritten" /\ call'.op = "BarFlyMp4TagWrite"

\* The system calls of the writer that returns in the step.
WriterEvents == { call'.trace[i] : i \in DOMAIN call'.trace }

\* C19: when BarFlyID3WriteFile or BarFlyMp4TagWrite returns -1 the file at
\* the original path holds the bytes it held before the call, and no rename
\* onto it has succeeded: the rename is the last step that can fail.
FailedWriteKeepsOriginal ==
    [][ (WriterReturns /\ call'.ret = -1)
            => /\ FOpenRb(fs', Mp4Path) = FOpenRb(fs, Mp4Path)
               /\ fs'.files = fs.files
               /\ \A ev \in WriterEvents : ev.sys = "rename" => ev.err # ""
               /\ \A i \in DOMAIN call'.trace :
                      call'.trace[i].sys = "rename" => i = Len(call'.trace) - 1 \/ i = Len(call'.trace)
      ]_vars

\* C20: when BarFlyID3WriteFile or BarFlyMp4TagWrite returns -1 after it has
\* created its temporary file, the temporary file is gone; and a writer
\* unlinks no path but that of its temporary file.
FailedWriteRemovesTemporary ==
    [][ WriterReturns
            => /\ (/\ call'.ret = -1
                   /\ \E ev \in WriterEvents : ev.sys = "fopen_tmp" /\ ev.err = "")
                    => ~tmp'.exists
               /\ \A ev \in WriterEvents : ev.sys = "unlink" => ev.path = "tmp"
      ]_vars

---------------------------------------------------------------------------
(* The properties of BarFlyOpen, BarFlyWrite and BarFlyTag under metadata  *)
(* failures.                                                               *)

\* The last call was a BarFlyOpen of a song in a format that has a file
\* extension, in which nothing but fetches and parses failed.
OpenedUnderMeta ==
    /\ call.op = "BarFlyOpen"
    /\ call.fault = "none"
    /\ Extension(song.audioFormat) # NULL

\* The value a field has after BarFlyOpen when its fetch and its parse ended
\* as ok: the value of the page, or 0.
FieldOf(ok, value) == IF ok THEN value ELSE 0

\* C21: whatever fetches and parses fail, BarFlyOpen renders the path from
\* the fields it has and goes on to create the file: unless a mkdir of a
\* parent directory fails it attempts the exclusive create.  In the recorder
\* it fills, year, track and disc are 0 and the cover URL is absent where the
\* fetch or the parse failed, track and disc are set together, and the other
\* fields carry the parsed values.
MetaFailuresAreNotFatal ==
    OpenedUnderMeta
        => /\ (\A ev \in CallEvents : ev.sys = "mkdir" => ev.err \in {"", "EEXIST"})
                => /\ \E ev \in CallEvents : ev.sys = "open"
                   /\ fly.status = "RECORDING"
           /\ fly.status = "RECORDING"
                => /\ fly.audio_file_path =
                          _BarFlyFileGetPath(song.artist, song.album, song.title,
                              FieldOf(call.meta.detail /\ call.meta.year, PageYear),
                              FieldOf(call.meta.explorer /\ call.meta.trackdisc, PageTrack),
                              FieldOf(call.meta.explorer /\ call.meta.trackdisc, PageDisc),
                              song.audioFormat, settings, TRUE)
                   /\ fly.year = FieldOf(call.meta.detail /\ call.meta.year, PageYear)
                   /\ fly.cover_art_url = NULL <=> ~(call.meta.detail /\ call.meta.cover)
                   /\ fly.track = FieldOf(call.meta.explorer /\ call.meta.trackdisc, PageTrack)
                   /\ fly.disc = FieldOf(call.meta.explorer /\ call.meta.trackdisc, PageDisc)
                   /\ (fly.track = 0) <=> (fly.disc = 0)
                   /\ fly.artist = NameCopy(song.artist)
                   /\ fly.album = NameCopy(song.album)
                   /\ fly.title = NameCopy(song.title)
                   /\ fly.audio_format = song.audioFormat
                   /\ stream.open

\* C21: a BarFlyOpen whose track/disc parse and year parse failed, and whose
\* cover parse did not, has opened the file.
MetaFailuresAreNotFatalWitness ==
    /\ OpenedUnderMeta
    /\ call.meta = [detail |-> TRUE, year |-> FALSE, cover |-> TRUE,
                    explorer |-> TRUE, trackdisc |-> FALSE]
    /\ fly.status = "RECORDING"
    /\ fly.year = 0
    /\ fly.track = 0
    /\ fly.cover_art_url # NULL

\* C22: BarFlyOpen returns 0 when the audio file was opened for writing or
\* existed already, whatever fetch or parse failed, and -1 otherwise.
OpenReturnsZeroIffFileOpened ==
    (pc = "song" /\ call.op = "BarFlyOpen")
        => /\ call.ret \in {0, -1}
           /\ call.ret = 0 <=> OpenOutcome \in {"created", "exists"}

\* C23: BarFlyWrite and BarFlyTag on a recorder whose audio_file is NULL
\* return 0 and change nothing; neither runs into its assertion.
NullHandleCallsDoNothing ==
    [][ (pc = "song" /\ fly.audio_file = NULL /\ call'.op \in {"BarFlyWrite", "BarFlyTag"})
            => /\ pc' = "song"
               /\ call'.ret = 0
               /\ fly' = fly
               /\ fs' = fs
               /\ stream' = stream
               /\ tmp' = tmp
      ]_vars

\* The fields a tag has to hold for the recorder fl, in order; covered when
\* the cover bytes were obtained.
TagFields(fl, covered) ==
    <<"artist", "album", "title">>
        \o (IF fl.year = 0 THEN <<>> ELSE <<"year">>)
        \o (IF fl.track = 0 THEN <<>> ELSE <<"track">>)
        \o (IF fl.disc = 0 THEN <<>> ELSE <<"disc">>)
        \o (IF covered THEN <<"cover">> ELSE <<>>)

\* The ID3 frame and the MP4 atom of each field.
FrameOf == [artist |-> "TPE1", album |-> "TALB", title |-> "TIT2", year |-> "TYER",
            track |-> "TRCK", disc |-> "TPOS", cover |-> "APIC"]
AtomOf == [artist |-> "ART", album |-> "alb", title |-> "nam", year |-> "day",
           track |-> "trkn", disc |-> "disk", cover |-> "covr"]

\* The last call was a BarFlyTag that put a tagged file at the path.
TagWasWritten ==
    /\ call.op = "BarFlyTag"
    /\ \E ev \in CallEvents : ev.sys = "rename" /\ ev.err = ""

\* Were the cover bytes obtained in the last call: embedCover set, a cover
\* URL present, the fetch succeeded.
CoverObtained ==
    /\ settings.embedCover
    /\ fly.cover_art_url # NULL
    /\ \E ev \in CallEvents : ev.sys = "fetch" /\ ev.err = ""

\* The frames or atoms at the head of the file written, the tag header left
\* out: what precedes the first byte of audio.
WrittenTagItems ==
    LET data == SysRead(fs, fly.audio_file_path)
        names == IF fly.audio_format = "AACPLUS" THEN { AtomOf[k] : k \in DOMAIN AtomOf }
                 ELSE { FrameOf[k] : k \in DOMAIN FrameOf }
        n == Cardinality({ i \in 2..Len(data) : data[i] \in names })
    IN SubSeq(data, 2, n + 1)

\* C24: the tag written holds artist, album and title, then year, track and
\* disc each exactly when the field of the recorder is not 0, then the cover
\* exactly when its bytes were obtained, in that order, as ID3 frames or as
\* MP4 atoms.
TagHoldsFieldsInOrder ==
    TagWasWritten
        => /\ Len(WrittenTagItems) = Len(TagFields(fly, CoverObtained))
           /\ \A i \in DOMAIN WrittenTagItems :
                 WrittenTagItems[i] = (IF fly.audio_format = "AACPLUS" THEN AtomOf ELSE FrameOf)
                                          [TagFields(fly, CoverObtained)[i]]

\* The number of the recorder the last frame or atom was made of.
TaggedNumber ==
    CASE call.op \in {"TYER", "day"} -> fly.year
      [] call.op = "TRCK" -> fly.track
      [] call.op = "TPOS" -> fly.disc

\* C25: the text of a TYER, TRCK or TPOS frame and of the year atom is the
\* decimal representation of the number, every digit of it.
NumbersAreWrittenInFull ==
    /\ call.op \in {"TYER", "TRCK", "TPOS"} => call.trace = Fmt_hu(TaggedNumber)
    /\ call.op = "day" => call.trace = Bytes(Fmt_hu(TaggedNumber))

\* The names of the children of an atom, in order.
ChildNames(atom) == [i \in 1..Len(atom.children) |-> atom.children[i].name]

\* The value the adds of SpecTag give the metadata of that kind.
ValueOf(kind) == (CHOOSE v \in Mp4Values : v[1] = kind)[2]

\* The step is a BarFlyMp4TagAdd* call that returns 0.
AddSucceeds ==
    /\ pc = "tagopen"
    /\ call'.op = "BarFlyMp4TagAdd"
    /\ call'.ret = 0
    /\ pc' = "tagopen"

\* moov ends in its one udta, which holds one meta with the 4-byte zero
\* payload, which holds hdlr with the 25-byte mdirappl payload and then ilst.
HasIlstChain(moov) ==
    /\ Len(moov.children) > 0
    /\ moov.children[Len(moov.children)].name = n_udta
    /\ Cardinality({ i \in DOMAIN moov.children : moov.children[i].name = n_udta }) = 1
    /\ LET udta == moov.children[Len(moov.children)]
       IN /\ ChildNames(udta) = <<n_meta>>
          /\ udta.children[1].data = Zeros(4)
          /\ ChildNames(udta.children[1]) = <<n_hdlr, n_ilst>>
          /\ udta.children[1].children[1].data = BAR_FLY_MP4_ATOM_HDLR_DATA
          /\ Len(udta.children[1].children[1].data) = 25
          /\ udta.children[1].children[1].children = <<>>

\* ilst of a moov that has the chain, and ilst of a tag: no children when the
\* tag has no ilst yet.
IlstOf(moov) == moov.children[Len(moov.children)].children[1].children[2]
ItemsOf(tg) ==
    IF _BarFlyMp4TagFindAtom(tg, IlstPath) = NoBytes THEN <<>>
    ELSE AtomAt(tg.atoms[1], Tail(_BarFlyMp4TagFindAtom(tg, IlstPath))).children

\* C26: after each metadata add that returns 0 on a freshly opened tag, moov
\* ends in its one udta, udta holds the one meta, meta holds hdlr then ilst,
\* and ilst holds the atoms of the adds before followed by the atom of this
\* add, whose one child data holds the class, four zero bytes and the value.
AddsBuildTheIlstChain ==
    [][ AddSucceeds
            => /\ HasIlstChain(mp4tag'.atoms[1])
               /\ LET items == IlstOf(mp4tag'.atoms[1]).children
                      kind == call'.trace[1]
                  IN /\ Len(items) = Len(ItemsOf(mp4tag)) + 1
                     /\ SubSeq(items, 1, Len(items) - 1) = ItemsOf(mp4tag)
                     /\ items[Len(items)].name = MetaName[kind]
                     /\ items[Len(items)].data_size = 0
                     /\ ChildNames(items[Len(items)]) = <<n_data>>
                     /\ items[Len(items)].children[1].data
                           = AtomClass[kind] \o <<0, 0, 0, 0>> \o MetaData(kind, ValueOf(kind))
                     /\ items[Len(items)].children[1].children = <<>>
      ]_vars

---------------------------------------------------------------------------
(* The payloads of the parsed atoms.                                        *)

\* The places of the atoms of a subtree, as child indices from its root.
RECURSIVE PlacesBelow(_)
PlacesBelow(atom) ==
    {<<>>} \cup UNION { { <<i>> \o p : p \in PlacesBelow(atom.children[i]) } :
                          i \in DOMAIN atom.children }

\* The places of the atoms of a tag: the index into tag->atoms, then child
\* indices.
PlacesOf(tg) ==
    UNION { { <<i>> \o p : p \in PlacesBelow(tg.atoms[i]) } : i \in DOMAIN tg.atoms }

\* The atom at a place of the tag.
TagAtomAt(tg, p) == AtomAt(tg.atoms[p[1]], Tail(p))

\* Was the atom parsed from the file (it has an offset)?
IsParsed(atom) == atom.offset # -1

\* A parsed atom other than stco has no data in memory; a loaded stco holds
\* data_size bytes; while the file is open, an atom that is not loaded is
\* found in it at its offset and its data is rendered from offset + 8, the
\* render failing when the file ends before the data does.
PayloadInFile(tg, a) ==
    /\ a.name # n_stco => a.data = NoBytes
    /\ a.data # NoBytes => Len(a.data) = a.data_size
    /\ (tg.mp4_file # NoBytes /\ a.data = NoBytes) =>
          /\ FRead(tg.mp4_file, a.offset + BAR_FLY_MP4_ATOM_SIZE_LENGTH,
                   BAR_FLY_MP4_ATOM_NAME_LENGTH) = a.name
          /\ (/\ a.data_size > 0
              /\ a.offset + BAR_FLY_MP4_ATOM_MIN_LENGTH + a.data_size <= Len(tg.mp4_file)) =>
                RenderData(a, tg.mp4_file) =
                   SubSeq(tg.mp4_file, a.offset + BAR_FLY_MP4_ATOM_MIN_LENGTH + 1,
                          a.offset + BAR_FLY_MP4_ATOM_MIN_LENGTH + a.data_size)
          /\ (/\ a.data_size > 0
              /\ a.offset + BAR_FLY_MP4_ATOM_MIN_LENGTH + a.data_size > Len(tg.mp4_file)) =>
                RenderData(a, tg.mp4_file) = NoBytes

\* An atom attached to the tag keeps its place and its data_size over a step;
\* its data changes only when it is the stco atom.
AttachedDataKept(a, b) ==
    /\ b.name = a.name
    /\ b.offset = a.offset
    /\ b.data_size = a.data_size
    /\ a.name # n_stco => b.data = a.data
    /\ a.data # NoBytes => b.data # NoBytes /\ Len(b.data) = Len(a.data)

\* C27: over BarFlyMp4TagOpen, the adds and BarFlyMp4TagWrite, no parsed
\* atom but stco has its payload in memory, the payloads left in the file are
\* rendered from their recorded offset, and no atom attached to the tag has
\* data appended to it.
ParsedPayloadsStayInFile ==
    [][ /\ mp4tag' # NoTag =>
              \A p \in PlacesOf(mp4tag') :
                 IsParsed(TagAtomAt(mp4tag', p)) =>
                    PayloadInFile(mp4tag', TagAtomAt(mp4tag', p))
        /\ (mp4tag # NoTag /\ mp4tag' # NoTag) =>
              \A p \in PlacesOf(mp4tag) :
                 /\ p \in PlacesOf(mp4tag')
                 /\ AttachedDataKept(TagAtomAt(mp4tag, p), TagAtomAt(mp4tag', p)) ]_vars

\* An add returned 0 on a tag whose stco is loaded while another parsed
\* atom with a payload is not, and the tree holds created atoms.
ParsedPayloadsStayInFileWitness ==
    /\ mp4tag # NoTag
    /\ call.op = "BarFlyMp4TagAdd"
    /\ call.ret = 0
    /\ \E p \in PlacesOf(mp4tag) :
          /\ TagAtomAt(mp4tag, p).name = n_stco
          /\ IsParsed(TagAtomAt(mp4tag, p))
          /\ TagAtomAt(mp4tag, p).data # NoBytes
    /\ \E p \in PlacesOf(mp4tag) :
          /\ TagAtomAt(mp4tag, p).name # n_stco
          /\ IsParsed(TagAtomAt(mp4tag, p))
          /\ TagAtomAt(mp4tag, p).data_size > 0
          /\ TagAtomAt(mp4tag, p).data = NoBytes
    /\ \E p \in PlacesOf(mp4tag) :
          /\ ~IsParsed(TagAtomAt(mp4tag, p))
          /\ TagAtomAt(mp4tag, p).data_size > 0

---------------------------------------------------------------------------
(* What an add that returned 0 has done.                                    *)

\* The payload of the chunk offset table the offset update works on, from
\* memory when it is loaded and from the file when it is not; NoBytes when
\* the tag has no such table or the file ends before it does.
FirstStcoData(tg) ==
    IF _BarFlyMp4TagFindAtom(tg, StcoPath) = NoBytes THEN NoBytes
    ELSE IF TagAtomAt(tg, _BarFlyMp4TagFindAtom(tg, StcoPath)).data # NoBytes
         THEN TagAtomAt(tg, _BarFlyMp4TagFindAtom(tg, StcoPath)).data
    ELSE FRead(tg.mp4_file,
               TagAtomAt(tg, _BarFlyMp4TagFindAtom(tg, StcoPath)).offset
                  + BAR_FLY_MP4_ATOM_MIN_LENGTH,
               TagAtomAt(tg, _BarFlyMp4TagFindAtom(tg, StcoPath)).data_size)

\* C28: an add that returns 0 has attached its metadata atom below
\* moov.udta.meta.ilst, and the chunk offsets have grown by what moov has
\* grown by.
ZeroReturnMeansAttachedAndShifted ==
    [][ (/\ pc = "tagopen"
         /\ call'.op = "BarFlyMp4TagAdd"
         /\ call'.ret = 0
         /\ FirstStcoData(mp4tag) # NoBytes
         /\ Len(FirstStcoData(mp4tag)) >= 8) =>
           /\ mp4tag' # NoTag
           /\ ItemCount(mp4tag') = ItemCount(mp4tag) + 1
           /\ TagAtomAt(mp4tag', _BarFlyMp4TagFindAtom(mp4tag', StcoPath)).data
                  # NoBytes
           /\ FirstStcoData(mp4tag') =
                  ShiftedOffsets(FirstStcoData(mp4tag),
                                 mp4tag'.atoms[1].size - mp4tag.atoms[1].size) ]_vars

---------------------------------------------------------------------------
(* The bytes the offset update touches.                                     *)

\* C29: the offset update of an add stays inside the payload of the stco
\* atom, whatever stco atom the parser accepted.
UpdateOffsetsStaysInPayload ==
    call.op = "BarFlyMp4TagAdd" => ~call.overrun

---------------------------------------------------------------------------
(* The end of _BarFlyMp4FileParseAtom.                                      *)

\* The outermost call has returned; when it returned NULL the file is back
\* at the position the call started at.
ParseAtomReturned ==
    /\ pc = "return"
    /\ mp4tag.stack = <<>>
    /\ ~mp4tag.ret.ok => mp4tag.pos = ParseStart

\* C30: _BarFlyMp4FileParseAtom returns on every file, with an atom, or with
\* NULL and the file position where the call found it.
ParseAtomTerminates == <>ParseAtomReturned

=============================================================================
